---- MODULE Spec2Model ----
(***************************************************************************)
(* Chat-history store of the ISP support chatbot: the three tables of      *)
(* app/db/models.py and the operations of ChatHistoryManager               *)
(* (app/db/crud.py).  The database state is the committed content of the   *)
(* tables; every request runs in a SQLAlchemy session of its own, so what  *)
(* a request has read and not yet written lives in local[p].               *)
(*                                                                         *)
(* add_message commits twice (crud.py:138 and crud.py:431) and reads       *)
(* before each write, so it is modelled as four steps.  Spec runs one      *)
(* request at a time; RaceSpec interleaves the steps of two requests.      *)
(*                                                                         *)
(* agent holds one call of process_chat (app/services/agent.py): the       *)
(* classification of the user message (ClassifySpec) and the parsing of    *)
(* the model's raw output into the reply (ParseSpec).                      *)
(***************************************************************************)
EXTENDS Integers, Sequences, FiniteSets, TLC

VARIABLES conversations, messages, stats, nextConv, pc, local, last,
          appends, handed, ideal, agent, query

vars == <<conversations, messages, stats, nextConv, pc, local, last,
          appends, handed, ideal, agent, query>>

db == <<conversations, messages, stats>>

(***************************************************************************)
(* Bounds of the model.                                                    *)
(***************************************************************************)
\* add_message calls one client makes
MaxAppends == 2

\* the conversation ids create_conversation generates, in this order; the
\* uuid suffix makes each one new
ConvIdPool == <<"c1", "c2">>
ConvIds == {ConvIdPool[i] : i \in 1..Len(ConvIdPool)}
NoConv == "none"

Procs == {"p1", "p2"}

(***************************************************************************)
(* Strings that the code compares after str.lower() are sequences of       *)
(* characters; the others are atoms.                                       *)
(***************************************************************************)
Null == <<"NULL">>
U1 == <<"u", "7">>
AnonymousLit == <<"a", "n", "o", "n", "y", "m", "o", "u", "s">>
AnonymousCap == <<"A", "n", "o", "n", "y", "m", "o", "u", "s">>
AnonymousUpper == <<"A", "N", "O", "N", "Y", "M", "O", "U", "S">>

LowerChar(ch) ==
  CASE ch = "A" -> "a"
    [] ch = "B" -> "b"
    [] ch = "C" -> "c"
    [] ch = "D" -> "d"
    [] ch = "E" -> "e"
    [] ch = "F" -> "f"
    [] ch = "G" -> "g"
    [] ch = "H" -> "h"
    [] ch = "I" -> "i"
    [] ch = "J" -> "j"
    [] ch = "K" -> "k"
    [] ch = "L" -> "l"
    [] ch = "M" -> "m"
    [] ch = "N" -> "n"
    [] ch = "O" -> "o"
    [] ch = "P" -> "p"
    [] ch = "Q" -> "q"
    [] ch = "R" -> "r"
    [] ch = "S" -> "s"
    [] ch = "T" -> "t"
    [] ch = "U" -> "u"
    [] ch = "V" -> "v"
    [] ch = "W" -> "w"
    [] ch = "X" -> "x"
    [] ch = "Y" -> "y"
    [] ch = "Z" -> "z"
    [] OTHER -> ch

Lower(s) == [i \in 1..Len(s) |-> LowerChar(s[i])]

\* user_id values a request may carry (None or a string)
UserIds == {Null, U1}
\* identifiers handed to delete_user_messages
Identifiers == {AnonymousLit, AnonymousCap, AnonymousUpper, U1}

Today == "today"

Levels == {"low", "mid", "high", "critical", "sensitive"}

\* arguments of add_message: role, message_level, tokens_used,
\* response_time_ms, api_calls_made; store has its default, True
Args(role, level, tokens, rt, api) ==
  [role |-> role, message_level |-> level, tokens_used |-> tokens,
   response_time_ms |-> rt, api_calls_made |-> api, store |-> TRUE]

\* a user message and an assistant reply
ChatArgs ==
  { Args("user", "sensitive", 0, 0, 0), Args("assistant", "low", 2, 100, 1) }

\* assistant replies with three response times
ReplyArgs ==
  { Args("assistant", "low", 2, 100, 1), Args("assistant", "low", 2, 200, 1),
    Args("assistant", "high", 1, 300, 0) }

\* the replies chat_endpoint saves: a parsed reply, whose metadata say
\* store true, and one whose metadata say store false (the model asked not
\* to store it, or process_chat's error reply, agent.py:387-393)
StoreArgs ==
  { Args("assistant", "low", 2, 100, 0),
    [Args("assistant", "critical", 0, 100, 0) EXCEPT !.store = FALSE] }

NoArgs == Args("none", "none", 0, 0, 0)

Max(a, b) == IF a >= b THEN a ELSE b

RECURSIVE Gcd(_, _)
Gcd(a, b) == IF b = 0 THEN a ELSE Gcd(b, a % b)

\* a non-negative rational in lowest terms, <<numerator, denominator>>
Rat(n, d) == LET g == Gcd(n, d) IN IF g = 0 THEN <<0, 1>> ELSE <<n \div g, d \div g>>

RECURSIVE SumOver(_, _)
SumOver(f, S) ==
  IF S = {} THEN 0
  ELSE LET x == CHOOSE y \in S : TRUE IN f[x] + SumOver(f, S \ {x})

\* SQLite hands out rowid = largest rowid in the table + 1
NextRowId(table) ==
  IF DOMAIN table = {} THEN 1
  ELSE 1 + CHOOSE i \in DOMAIN table : \A j \in DOMAIN table : j <= i

Restrict(f, S) == [x \in S |-> f[x]]

MessagesOf(c) == {m \in DOMAIN messages : messages[m].conversation_id = c}

(***************************************************************************)
(* Rows.                                                                   *)
(***************************************************************************)
\* Conversation(...) as create_conversation builds it
NewConversation(u) ==
  [user_id |-> u,
   session_type |-> IF u # Null /\ u # <<>> THEN "user" ELSE "anonymous",
   language |-> "EN",
   total_messages |-> 0,
   total_tokens_used |-> 0]

\* DailyStatistics(date=today, user_id=user_id) after the flush has set the
\* column defaults
NewDailyStatistics(u) ==
  [date |-> Today, user_id |-> u, total_conversations |-> 0,
   total_messages |-> 0, user_messages |-> 0, assistant_messages |-> 0,
   total_tokens |-> 0, low_level_count |-> 0, mid_level_count |-> 0,
   high_level_count |-> 0, critical_level_count |-> 0,
   sensitive_level_count |-> 0, total_api_calls |-> 0,
   avg_response_time_ms |-> <<0, 1>>]

level_map(level) ==
  CASE level = "low" -> "low_level_count"
    [] level = "mid" -> "mid_level_count"
    [] level = "high" -> "high_level_count"
    [] level = "critical" -> "critical_level_count"
    [] level = "sensitive" -> "sensitive_level_count"

\* the assistant-message count the running average is weighted with: the
\* code reads stats.assistant_messages after it has been incremented
current_count(s) == s.assistant_messages

\* (current_avg * current_count + response_time_ms) / (current_count + 1)
NewAverage(avg, count, rt) ==
  IF count > 0 THEN Rat(avg[1] * count + rt * avg[2], avg[2] * (count + 1))
  ELSE Rat(rt, 1)

\* mutant: the token count is overwritten with the tokens of the message
UpdatedStatsTokensOverwritten(s, a) ==
  LET s1 == [s EXCEPT !.total_messages = @ + 1]
      s2 == IF a.role = "user"
            THEN [s1 EXCEPT !.user_messages = @ + 1]
            ELSE [s1 EXCEPT !.assistant_messages = @ + 1]
  IN [s2 EXCEPT !.total_tokens = a.tokens_used,
                !.total_api_calls = @ + a.api_calls_made]

\* mutant: every message is counted as an assistant message of level low
UpdatedStatsRoleAndLevelIgnored(s, a) ==
  [s EXCEPT !.total_messages = @ + 1,
            !.assistant_messages = @ + 1,
            !.total_tokens = @ + a.tokens_used,
            !.total_api_calls = @ + a.api_calls_made,
            !.low_level_count = @ + 1]

\* the attribute values _update_daily_stats computes from the row s it has
\* loaded and the message arguments a
UpdatedStats(s, a) ==
  LET s1 == [s EXCEPT !.total_messages = @ + 1]
      s2 == IF a.role = "user"
            THEN [s1 EXCEPT !.user_messages = @ + 1]
            ELSE [s1 EXCEPT !.assistant_messages = @ + 1]
      s3 == [s2 EXCEPT !.total_tokens = @ + a.tokens_used,
                       !.total_api_calls = @ + a.api_calls_made]
      s4 == IF a.message_level \in Levels
            THEN [s3 EXCEPT ![level_map(a.message_level)] = @ + 1]
            ELSE s3
  IN IF a.role = "assistant" /\ a.response_time_ms > 0
     THEN [s4 EXCEPT !.avg_response_time_ms =
                        NewAverage(@, current_count(s4), a.response_time_ms)]
     ELSE s4

\* the ORM's UPDATE sets only the attributes whose value differs from the
\* loaded one; the other columns keep what the table holds now
WriteBack(cur, loaded, new) ==
  [f \in DOMAIN cur |-> IF new[f] # loaded[f] THEN new[f] ELSE cur[f]]

\* mutant: the last message_index is taken over without the + 1
NextMessageIndexNoStep(c) ==
  IF MessagesOf(c) = {} THEN 1
  ELSE CHOOSE i \in {messages[m].message_index : m \in MessagesOf(c)} :
         \A m \in MessagesOf(c) : messages[m].message_index <= i

\* message_index of the next message of conversation c
NextMessageIndex(c) ==
  IF MessagesOf(c) = {} THEN 1
  ELSE 1 + (CHOOSE i \in {messages[m].message_index : m \in MessagesOf(c)} :
              \A m \in MessagesOf(c) : messages[m].message_index <= i)

(***************************************************************************)
(* What a request holds between its steps, and the record of the last      *)
(* step taken (operation, outcome, arguments and return values).           *)
(***************************************************************************)
\* what chat_endpoint holds: where it is, its conversation, the chat history
\* it loaded (message ids), the <<id, message_index>> of the messages its
\* add_message calls returned, and how many of them there were when
\* process_chat was awaited
IdleChat ==
  [pc |-> "idle", conv |-> NoConv, history |-> <<>>, saved |-> <<>>,
   invoked_after |-> 0]

\* loaded and gone are the message rows and the conversations a delete has
\* marked in its session before it commits
IdleLocal ==
  [conv |-> NoConv, args |-> NoArgs, index |-> 0, total_messages |-> 0,
   total_tokens_used |-> 0, id |-> 0, user_id |-> Null, row |-> 0,
   snap |-> NewDailyStatistics(Null), loaded |-> {}, gone |-> {},
   chat |-> IdleChat]

\* add_message returns the message to its caller; chat_endpoint goes on to
\* process_chat after the user message (chat.py:71-91) and to the response
\* after the reply (chat.py:100-121)
Returned(l, id, index) ==
  [IdleLocal EXCEPT !.chat =
     IF l.chat.pc = "save_user"
     THEN [l.chat EXCEPT !.pc = "model", !.saved = Append(@, <<id, index>>)]
     ELSE IF l.chat.pc = "save_reply"
     THEN [l.chat EXCEPT !.pc = "returned", !.saved = Append(@, <<id, index>>)]
     ELSE l.chat]

\* add_message raises; chat_endpoint answers HTTP 500 (chat.py:123-125)
Failed(l) ==
  [IdleLocal EXCEPT !.chat =
     IF l.chat.pc \in {"save_user", "save_reply"}
     THEN [l.chat EXCEPT !.pc = "http500"] ELSE l.chat]

\* confirm is the flag the purge endpoint was called with (FALSE elsewhere),
\* arg the conversation_id get_or_create_conversation was called with
Event(op, stage, ok, conv, id, uid, x, y, z) ==
  [op |-> op, stage |-> stage, ok |-> ok, conv |-> conv, id |-> id,
   uid |-> uid, x |-> x, y |-> y, z |-> z, confirm |-> FALSE, arg |-> NoConv]

\* ghost: what the rows of one daily bucket should add up to
NoIdeal ==
  [total_messages |-> 0, user_messages |-> 0, assistant_messages |-> 0,
   total_tokens |-> 0, total_api_calls |-> 0,
   levels |-> [l \in Levels |-> 0], rt_sum |-> 0, rt_count |-> 0]

Counted(g, a) ==
  [total_messages |-> g.total_messages + 1,
   user_messages |-> g.user_messages + (IF a.role = "user" THEN 1 ELSE 0),
   assistant_messages |-> g.assistant_messages + (IF a.role = "user" THEN 0 ELSE 1),
   total_tokens |-> g.total_tokens + a.tokens_used,
   total_api_calls |-> g.total_api_calls + a.api_calls_made,
   levels |-> [l \in Levels |-> g.levels[l] + (IF l = a.message_level THEN 1 ELSE 0)],
   rt_sum |-> g.rt_sum + (IF a.role = "assistant" /\ a.response_time_ms > 0
                          THEN a.response_time_ms ELSE 0),
   rt_count |-> g.rt_count + (IF a.role = "assistant" /\ a.response_time_ms > 0
                              THEN 1 ELSE 0)]

(***************************************************************************)
(* The message classifier of app/services/agent.py.  A text is a sequence  *)
(* of characters; "keyword in message_lower" is a substring test.          *)
(***************************************************************************)
\* keyword in text
Contains(keyword, text) ==
  \E i \in 0..(Len(text) - Len(keyword)) :
    SubSeq(text, i + 1, i + Len(keyword)) = keyword

\* any(keyword in text for keyword in keywords)
AnyKeyword(keywords, text) == \E keyword \in keywords : Contains(keyword, text)

sensitive_keywords ==
  { <<"p", "a", "s", "s", "w", "o", "r", "d">>,
    <<"p", "i", "n">>,
    <<"c", "r", "e", "d", "i", "t", " ", "c", "a", "r", "d">>,
    <<"b", "a", "n", "k">>,
    <<"n", "i", "d">>,
    <<"a", "c", "c", "o", "u", "n", "t", " ", "n", "u", "m", "b", "e", "r">>,
    <<"c", "v", "v">> }

critical_keywords ==
  { <<"p", "a", "y", "m", "e", "n", "t">>,
    <<"b", "i", "l", "l">>,
    <<"m", "o", "n", "e", "y">>,
    <<"e", "x", "p", "i", "r", "e">>,
    <<"d", "i", "s", "c", "o", "n", "n", "e", "c", "t">>,
    <<"d", "u", "e">> }

high_keywords ==
  { <<"i", "n", "t", "e", "r", "n", "e", "t">>,
    <<"c", "o", "n", "n", "e", "c", "t", "i", "o", "n">>,
    <<"r", "o", "u", "t", "e", "r">>,
    <<"s", "p", "e", "e", "d">>,
    <<"n", "o", "t", " ", "w", "o", "r", "k", "i", "n", "g">>,
    <<"p", "r", "o", "b", "l", "e", "m">>,
    <<"i", "s", "s", "u", "e">> }

mid_keywords ==
  { <<"p", "a", "c", "k", "a", "g", "e">>,
    <<"s", "u", "b", "s", "c", "r", "i", "p", "t", "i", "o", "n">>,
    <<"p", "l", "a", "n">>,
    <<"u", "p", "g", "r", "a", "d", "e">>,
    <<"m", "o", "v", "i", "e">>,
    <<"s", "e", "r", "v", "e", "r">> }

\* mutant: the critical keywords are tried before the sensitive ones
classify_message_levelCriticalFirst(message) ==
  LET message_lower == Lower(message)
  IN IF AnyKeyword(critical_keywords, message_lower) THEN "critical"
     ELSE IF AnyKeyword(sensitive_keywords, message_lower) THEN "sensitive"
     ELSE IF AnyKeyword(high_keywords, message_lower) THEN "high"
     ELSE IF AnyKeyword(mid_keywords, message_lower) THEN "mid"
     ELSE "low"

\* HistoryManager._classify_message_level
classify_message_level(message) ==
  LET message_lower == Lower(message)
  IN IF AnyKeyword(sensitive_keywords, message_lower) THEN "sensitive"
     ELSE IF AnyKeyword(critical_keywords, message_lower) THEN "critical"
     ELSE IF AnyKeyword(high_keywords, message_lower) THEN "high"
     ELSE IF AnyKeyword(mid_keywords, message_lower) THEN "mid"
     ELSE "low"

billing_words ==
  { <<"b", "i", "l", "l">>,
    <<"p", "a", "y", "m", "e", "n", "t">>,
    <<"m", "o", "n", "e", "y">>,
    <<"d", "u", "e">>,
    <<"p", "a", "y">> }

technical_words ==
  { <<"i", "n", "t", "e", "r", "n", "e", "t">>,
    <<"c", "o", "n", "n", "e", "c", "t", "i", "o", "n">>,
    <<"r", "o", "u", "t", "e", "r">>,
    <<"s", "p", "e", "e", "d">>,
    <<"n", "o", "t", " ", "w", "o", "r", "k", "i", "n", "g">> }

packages_words ==
  { <<"p", "a", "c", "k", "a", "g", "e">>,
    <<"p", "l", "a", "n">>,
    <<"s", "u", "b", "s", "c", "r", "i", "p", "t", "i", "o", "n">>,
    <<"u", "p", "g", "r", "a", "d", "e">> }

entertainment_words ==
  { <<"m", "o", "v", "i", "e">>,
    <<"s", "e", "r", "v", "e", "r">>,
    <<"f", "t", "p">>,
    <<"o", "t", "t">>,
    <<"s", "t", "r", "e", "a", "m">> }

account_words ==
  { <<"a", "c", "c", "o", "u", "n", "t">>,
    <<"u", "s", "e", "r", " ", "i", "d">>,
    <<"p", "r", "o", "f", "i", "l", "e">>,
    <<"d", "e", "t", "a", "i", "l", "s">> }

\* mutant: the words are looked for in the message as typed
detect_categoryNoLower(message) ==
  IF AnyKeyword(billing_words, message) THEN "billing"
  ELSE IF AnyKeyword(technical_words, message) THEN "technical"
  ELSE IF AnyKeyword(packages_words, message) THEN "packages"
  ELSE IF AnyKeyword(entertainment_words, message) THEN "entertainment"
  ELSE IF AnyKeyword(account_words, message) THEN "account"
  ELSE "general"

\* HistoryManager._detect_category
detect_category(message) ==
  LET message_lower == Lower(message)
  IN IF AnyKeyword(billing_words, message_lower) THEN "billing"
     ELSE IF AnyKeyword(technical_words, message_lower) THEN "technical"
     ELSE IF AnyKeyword(packages_words, message_lower) THEN "packages"
     ELSE IF AnyKeyword(entertainment_words, message_lower) THEN "entertainment"
     ELSE IF AnyKeyword(account_words, message_lower) THEN "account"
     ELSE "general"

\* words a user message is made of
WordPassword == <<"P", "a", "s", "s", "w", "o", "r", "d">>
WordBill == <<"B", "I", "L", "L">>
WordRouter == <<"r", "o", "u", "t", "e", "r">>
WordPlan == <<"p", "l", "a", "n">>
WordMovie == <<"m", "o", "v", "i", "e">>
WordAccount == <<"a", "c", "c", "o", "u", "n", "t">>
WordHello == <<"h", "e", "l", "l", "o">>
WordShipping == <<"s", "h", "i", "p", "p", "i", "n", "g">>
Vocabulary ==
  {WordPassword, WordBill, WordRouter, WordPlan,
   WordMovie, WordAccount, WordHello, WordShipping}

\* words in one user message
MaxWords == 2

\* the words joined by single spaces
RECURSIVE Join(_)
Join(ws) ==
  IF Len(ws) = 0 THEN <<>>
  ELSE IF Len(ws) = 1 THEN ws[1]
  ELSE ws[1] \o <<" ">> \o Join(Tail(ws))

\* the user messages of the model: up to MaxWords words
UserMessages ==
  {Join(ws) : ws \in UNION {[1..n -> Vocabulary] : n \in 0..MaxWords}}

\* one call of process_chat: its position, the message, what the
\* classifier said, the model's raw output and the reply parsed from it
\* a Python value the parser handles: a str with its text, or a value of
\* another type, of which only the truth value matters
StrValue(text) == [kind |-> "str", text |-> text, truthy |-> text # <<>>, members |-> <<>>]
OtherValue(truthy) == [kind |-> "other", text |-> <<>>, truthy |-> truthy, members |-> <<>>]
\* a dict: its key-value pairs in the order read, falsy when empty
DictValue(members) ==
  [kind |-> "dict", text |-> <<>>, truthy |-> members # <<>>, members |-> members]

\* extracted is ai_reply as the extraction stages leave it (before the
\* fail-safe of agent.py:327-335), ai_reply the reply returned
IdleAgent ==
  [pc |-> "idle", message |-> <<>>, language |-> "EN", msg_level |-> "none",
   msg_category |-> "none", raw_output |-> <<>>, extracted |-> StrValue(<<>>), metadata |-> DictValue(<<>>),
   ai_reply |-> <<>>]

\* one paginated query: its arguments, the number of rows its filters
\* match, and the page envelope it returns
IdleQuery ==
  [pc |-> "idle", op |-> "none", skip |-> 0, limit |-> 1, total |-> 0,
   page |-> 0, total_pages |-> 0]

Init ==
  /\ agent = IdleAgent
  /\ query = IdleQuery
  /\ conversations = [c \in {} |-> NewConversation(Null)]
  /\ messages = [m \in {} |-> NoArgs]
  /\ stats = [r \in {} |-> NewDailyStatistics(Null)]
  /\ nextConv = 1
  /\ pc = [p \in Procs |-> "idle"]
  /\ local = [p \in Procs |-> IdleLocal]
  /\ last = Event("init", "done", TRUE, NoConv, 0, Null, 0, 0, 0)
  /\ appends = [p \in Procs |-> 0]
  /\ handed = [c \in ConvIds |-> 0]
  /\ ideal = [u \in UserIds |-> NoIdeal]

Idle(p) == pc[p] = "idle"


(***************************************************************************)
(* create_conversation: the uuid suffix makes the conversation_id fresh;   *)
(* ids are numbered in creation order.                                     *)
(***************************************************************************)
CreateConversation(p, u) ==
  /\ Idle(p)
  /\ nextConv <= Len(ConvIdPool)
  /\ LET new == ConvIdPool[nextConv]
     IN /\ conversations' =
             [c \in DOMAIN conversations \cup {new} |->
                IF c = new THEN NewConversation(u) ELSE conversations[c]]
        /\ last' = Event("create_conversation", "done", TRUE, new, 0, u, 0, 0, 0)
  /\ nextConv' = nextConv + 1
  /\ UNCHANGED <<messages, stats, pc, local, appends, handed, ideal>>
  /\ UNCHANGED <<agent, query>>

\* a conversation_id that no conversation has; NoConv stands for None
UnknownConv == "c0"

\* the language codes of a request
Languages == {"EN", "BN"}

\* mutant: a conversation is created whether or not the id exists
GetOrCreateConversationAlways(p, cid, u, lang) ==
  /\ Idle(p)
  /\ nextConv <= Len(ConvIdPool)
  /\ LET new == ConvIdPool[nextConv]
     IN /\ conversations' =
             [c \in DOMAIN conversations \cup {new} |->
                IF c = new THEN [NewConversation(u) EXCEPT !.language = lang]
                ELSE conversations[c]]
        /\ last' = [Event("get_or_create_conversation", "created", TRUE, new, 0, u,
                          0, 0, 0) EXCEPT !.arg = cid]
  /\ nextConv' = nextConv + 1
  /\ UNCHANGED <<messages, stats, pc, local, appends, handed, ideal>>
  /\ UNCHANGED <<agent, query>>

(***************************************************************************)
(* get_or_create_conversation (crud.py:58-77): the row with the id if there *)
(* is one, else create_conversation with the user id and language given.   *)
(***************************************************************************)
GetOrCreateConversation(p, cid, u, lang) ==
  /\ Idle(p)
  /\ IF cid # NoConv /\ cid \in DOMAIN conversations
     THEN /\ last' = [Event("get_or_create_conversation", "existing", TRUE, cid, 0, u,
                            0, 0, 0) EXCEPT !.arg = cid]
          /\ UNCHANGED <<conversations, nextConv>>
     ELSE /\ nextConv <= Len(ConvIdPool)
          /\ LET new == ConvIdPool[nextConv]
             IN /\ conversations' =
                     [c \in DOMAIN conversations \cup {new} |->
                        IF c = new THEN [NewConversation(u) EXCEPT !.language = lang]
                        ELSE conversations[c]]
                /\ last' = [Event("get_or_create_conversation", "created", TRUE, new,
                                  0, u, 0, 0, 0) EXCEPT !.arg = cid]
          /\ nextConv' = nextConv + 1
  /\ UNCHANGED <<messages, stats, pc, local, appends, handed, ideal>>
  /\ UNCHANGED <<agent, query>>

\* mutant: add_message without the check that the conversation exists
AddMessageBeginUnchecked(p, c, a) ==
  /\ Idle(p)
  /\ appends[p] < MaxAppends
  /\ appends' = [appends EXCEPT ![p] = @ + 1]
  /\ local' = [local EXCEPT ![p] =
       [IdleLocal EXCEPT !.chat = local[p].chat, !.conv = c, !.args = a, !.index = 1]]
  /\ pc' = [pc EXCEPT ![p] = "add_commit"]
  /\ last' = Event("add_message", "begin", TRUE, c, 0, Null, 0, 0, 0)
  /\ UNCHANGED <<conversations, messages, stats, nextConv, handed, ideal>>
  /\ UNCHANGED <<agent, query>>

(***************************************************************************)
(* add_message, step 1 (crud.py:96-129): look the conversation up, raise   *)
(* ValueError when it is missing, read the last message_index.             *)
(***************************************************************************)
AddMessageBegin(p, c, a) ==
  /\ Idle(p)
  /\ IF c \notin DOMAIN conversations
     THEN /\ last' = Event("add_message", "ValueError", FALSE, c, 0, Null, 0, 0, 0)
          /\ local' = [local EXCEPT ![p] = Failed(local[p])]
          /\ UNCHANGED <<conversations, messages, stats, nextConv, pc,
                         appends, handed, ideal>>
     ELSE /\ appends[p] < MaxAppends
          /\ appends' = [appends EXCEPT ![p] = @ + 1]
          /\ local' = [local EXCEPT ![p] =
               [IdleLocal EXCEPT !.chat = local[p].chat, !.conv = c, !.args = a,
                                 !.index = NextMessageIndex(c),
                                 !.total_messages = conversations[c].total_messages,
                                 !.total_tokens_used = conversations[c].total_tokens_used]]
          /\ pc' = [pc EXCEPT ![p] = "add_commit"]
          /\ last' = Event("add_message", "begin", TRUE, c, 0, Null, 0, 0, 0)
          /\ UNCHANGED <<conversations, messages, stats, nextConv, handed, ideal>>
  /\ UNCHANGED <<agent, query>>

\* the Message row add_message builds (crud.py:115-129)
NewMessage(l) ==
  [conversation_id |-> l.conv, role |-> l.args.role,
   message_index |-> l.index, message_level |-> l.args.message_level,
   tokens_used |-> l.args.tokens_used,
   response_time_ms |-> l.args.response_time_ms,
   api_calls_made |-> l.args.api_calls_made,
   store |-> l.args.store]

\* mutant: the tokens of the message are not added
CountedConversationNoTokens(loaded, a) ==
  [loaded EXCEPT !.total_messages = @ + 1]

\* mutant: total_messages is not incremented
CountedConversationNoCount(loaded, a) ==
  [loaded EXCEPT !.total_tokens_used = @ + a.tokens_used]

\* the conversation counters add_message assigns (crud.py:133-136), from the
\* values it loaded
CountedConversation(loaded, a) ==
  [loaded EXCEPT !.total_messages = @ + 1,
                 !.total_tokens_used = @ + a.tokens_used]

(***************************************************************************)
(* add_message, step 2 (crud.py:131-139): the first commit writes the      *)
(* message row and the conversation counters together.                     *)
(***************************************************************************)
AddMessageCommit(p) ==
  /\ pc[p] = "add_commit"
  /\ local[p].conv \in DOMAIN conversations
  /\ LET l == local[p]
         c == l.conv
         id == NextRowId(messages)
         loaded == [conversations[c] EXCEPT
                      !.total_messages = l.total_messages,
                      !.total_tokens_used = l.total_tokens_used]
     IN /\ messages' = [m \in DOMAIN messages \cup {id} |->
                          IF m = id THEN NewMessage(l) ELSE messages[m]]
        /\ conversations' = [conversations EXCEPT ![c] =
                               WriteBack(@, loaded, CountedConversation(loaded, l.args))]
        /\ handed' = [handed EXCEPT ![c] = Max(@, l.index)]
        /\ local' = [local EXCEPT ![p].id = id]
        /\ pc' = [pc EXCEPT ![p] = "stats_read"]
        /\ last' = Event("add_message", "committed", TRUE, c, id, Null, l.index, 0, 0)
  /\ UNCHANGED <<stats, nextConv, appends, ideal>>
  /\ UNCHANGED <<agent, query>>

\* the first commit fails (the write fails, or the conversation row it
\* updates is gone): the session is discarded with nothing written
AddMessageCommitFail(p) ==
  /\ pc[p] = "add_commit"
  /\ pc' = [pc EXCEPT ![p] = "idle"]
  /\ local' = [local EXCEPT ![p] = Failed(local[p])]
  /\ last' = Event("add_message", "StorageFailure", FALSE, local[p].conv, 0, Null,
                   local[p].index, local[p].total_messages, 0)
  /\ UNCHANGED <<conversations, messages, stats, nextConv, appends, handed, ideal>>
  /\ UNCHANGED <<agent, query>>

(***************************************************************************)
(* add_message, step 3 (crud.py:139-142, 383-391): refresh the message,    *)
(* reload conversation.user_id, look up today's row of that user.          *)
(***************************************************************************)
UpdateDailyStatsRead(p) ==
  /\ pc[p] = "stats_read"
  /\ LET l == local[p] IN
     IF l.id \notin DOMAIN messages \/ l.conv \notin DOMAIN conversations
     THEN /\ pc' = [pc EXCEPT ![p] = "idle"]
          /\ local' = [local EXCEPT ![p] = Failed(l)]
          /\ last' = Event("add_message", "ObjectDeleted", FALSE, l.conv, l.id, Null, l.index, 0, 0)
     ELSE LET u == conversations[l.conv].user_id
              rows == {r \in DOMAIN stats :
                         stats[r].date = Today /\ stats[r].user_id = u}
          IN /\ \/ /\ rows = {}
                   /\ local' = [local EXCEPT ![p].user_id = u, ![p].row = 0,
                                             ![p].snap = NewDailyStatistics(u)]
                \/ \E r \in rows :
                     local' = [local EXCEPT ![p].user_id = u, ![p].row = r,
                                            ![p].snap = stats[r]]
             /\ pc' = [pc EXCEPT ![p] = "stats_commit"]
             /\ last' = Event("add_message", "stats", TRUE, l.conv, l.id, u, l.index, 0, 0)
  /\ UNCHANGED <<conversations, messages, stats, nextConv, appends, handed, ideal>>
  /\ UNCHANGED <<agent, query>>

(***************************************************************************)
(* add_message, step 4 (crud.py:393-431): insert the row if it was         *)
(* missing, assign the counters, second commit.                            *)
(***************************************************************************)
UpdateDailyStatsCommit(p) ==
  /\ pc[p] = "stats_commit"
  /\ LET l == local[p]
         new == UpdatedStats(l.snap, l.args)
     IN /\ IF l.row = 0
           THEN LET r == NextRowId(stats)
                IN stats' = [x \in DOMAIN stats \cup {r} |->
                               IF x = r THEN new ELSE stats[x]]
           ELSE /\ l.row \in DOMAIN stats
                /\ stats' = [stats EXCEPT ![l.row] = WriteBack(@, l.snap, new)]
        /\ ideal' = [ideal EXCEPT ![l.user_id] = Counted(@, l.args)]
        /\ last' = Event("add_message", "done", TRUE, l.conv, l.id, l.user_id, l.index, 0, 0)
  /\ pc' = [pc EXCEPT ![p] = "idle"]
  /\ local' = [local EXCEPT ![p] = Returned(local[p], local[p].id, local[p].index)]
  /\ UNCHANGED <<conversations, messages, nextConv, appends, handed>>
  /\ UNCHANGED <<agent, query>>

\* the second commit fails: the exception leaves add_message after the
\* first commit has been made
UpdateDailyStatsFail(p) ==
  /\ pc[p] = "stats_commit"
  /\ pc' = [pc EXCEPT ![p] = "idle"]
  /\ local' = [local EXCEPT ![p] = Failed(local[p])]
  /\ last' = Event("add_message", "StorageFailure", FALSE, local[p].conv,
                   local[p].id, local[p].user_id, local[p].index,
                   local[p].total_messages, 0)
  /\ UNCHANGED <<conversations, messages, stats, nextConv, appends, handed, ideal>>
  /\ UNCHANGED <<agent, query>>

(***************************************************************************)
(* delete_message (crud.py:457-477).                                       *)
(***************************************************************************)
\* mutant: the tokens of the deleted message are not taken off
UncountedConversationTokensKept(conv, msg) ==
  [conv EXCEPT !.total_messages = Max(conv.total_messages - 1, 0)]

\* the conversation counters after one of its messages, msg, is deleted
UncountedConversation(conv, msg) ==
  [conv EXCEPT
     !.total_messages =
        Max((IF conv.total_messages = 0 THEN 1 ELSE conv.total_messages) - 1, 0),
     !.total_tokens_used = Max(conv.total_tokens_used - msg.tokens_used, 0)]

DeleteMessage(p, id) ==
  /\ Idle(p)
  /\ IF id \notin DOMAIN messages
     THEN /\ last' = Event("delete_message", "done", FALSE, NoConv, id, Null, 0, 0, 0)
          /\ UNCHANGED <<conversations, messages>>
     ELSE LET c == messages[id].conversation_id
          IN /\ messages' = Restrict(messages, DOMAIN messages \ {id})
             /\ conversations' =
                  IF c \in DOMAIN conversations
                  THEN [conversations EXCEPT ![c] = UncountedConversation(@, messages[id])]
                  ELSE conversations
             /\ last' = Event("delete_message", "done", TRUE, c, id, Null, 0, 0, 0)
  /\ UNCHANGED <<stats, nextConv, pc, local, appends, handed, ideal>>
  /\ UNCHANGED <<agent, query>>

(***************************************************************************)
(* delete_conversation (crud.py:444-454); Conversation.messages cascades   *)
(* the delete to the messages (models.py:41).                              *)
(***************************************************************************)
\* mutant: the daily statistics of the conversation's user are cleared too
DeleteConversationStatsCleared(p, c) ==
  /\ Idle(p)
  /\ IF c \in DOMAIN conversations
     THEN /\ conversations' = Restrict(conversations, DOMAIN conversations \ {c})
          /\ messages' = Restrict(messages,
               {m \in DOMAIN messages : messages[m].conversation_id # c})
          /\ stats' = Restrict(stats,
               {r \in DOMAIN stats : stats[r].user_id # conversations[c].user_id})
          /\ handed' = [handed EXCEPT ![c] = 0]
          /\ last' = Event("delete_conversation", "done", TRUE, c, 0, Null, 0, 0, 0)
     ELSE /\ last' = Event("delete_conversation", "done", FALSE, c, 0, Null, 0, 0, 0)
          /\ UNCHANGED <<conversations, messages, stats, handed>>
  /\ UNCHANGED <<nextConv, pc, local, appends, ideal>>
  /\ UNCHANGED <<agent, query>>

\* mutant: no cascade, the messages stay
CascadeDeleteNone(gone) == messages

\* the message rows left when the conversations in gone are deleted
CascadeDelete(gone) ==
  Restrict(messages, {m \in DOMAIN messages : messages[m].conversation_id \notin gone})

DeleteConversation(p, c) ==
  /\ Idle(p)
  /\ IF c \in DOMAIN conversations
     THEN /\ conversations' = Restrict(conversations, DOMAIN conversations \ {c})
          /\ messages' = CascadeDelete({c})
          /\ handed' = [handed EXCEPT ![c] = 0]
          /\ last' = Event("delete_conversation", "done", TRUE, c, 0, Null, 0, 0, 0)
     ELSE /\ last' = Event("delete_conversation", "done", FALSE, c, 0, Null, 0, 0, 0)
          /\ UNCHANGED <<conversations, messages, handed>>
  /\ UNCHANGED <<stats, nextConv, pc, local, appends, ideal>>
  /\ UNCHANGED <<agent, query>>

(***************************************************************************)
(* delete_user_messages (crud.py:480-508).                                 *)
(***************************************************************************)
\* mutant: the identifier is compared without lower()
UserConversationsCaseSensitive(ident) ==
  IF ident = AnonymousLit
  THEN {c \in DOMAIN conversations : conversations[c].session_type = "anonymous"}
  ELSE {c \in DOMAIN conversations : conversations[c].user_id = ident}

\* the conversations the identifier selects (crud.py:482-485)
UserConversations(ident) ==
  IF Lower(ident) = AnonymousLit
  THEN {c \in DOMAIN conversations : conversations[c].session_type = "anonymous"}
  ELSE {c \in DOMAIN conversations : conversations[c].user_id = ident}

\* the DailyStatistics rows the identifier selects (crud.py:496-500)
UserStatsRows(ident) ==
  IF Lower(ident) = AnonymousLit
  THEN {r \in DOMAIN stats : stats[r].user_id = Null}
  ELSE {r \in DOMAIN stats : stats[r].user_id = ident}

DeleteUserMessages(p, ident) ==
  /\ Idle(p)
  /\ LET gone == UserConversations(ident)
         bucket == IF Lower(ident) = AnonymousLit THEN Null ELSE ident
     IN IF gone = {}
        THEN /\ last' = Event("delete_user_messages", "done", TRUE, NoConv, 0, ident, 0, 0, 0)
             /\ UNCHANGED <<conversations, messages, stats, ideal, handed>>
        ELSE /\ conversations' = Restrict(conversations, DOMAIN conversations \ gone)
             /\ handed' = [c \in DOMAIN handed |-> IF c \in gone THEN 0 ELSE handed[c]]
             /\ messages' = CascadeDelete(gone)
             /\ stats' = Restrict(stats, DOMAIN stats \ UserStatsRows(ident))
             /\ ideal' = [u \in DOMAIN ideal |-> IF u = bucket THEN NoIdeal ELSE ideal[u]]
             /\ last' = Event("delete_user_messages", "done", TRUE, NoConv, 0, ident,
                              Cardinality(gone),
                              Cardinality({m \in DOMAIN messages :
                                             messages[m].conversation_id \in gone}),
                              0)
  /\ UNCHANGED <<nextConv, pc, local, appends>>
  /\ UNCHANGED <<agent, query>>

(***************************************************************************)
(* purge_all_data (crud.py:511-526).                                       *)
(***************************************************************************)
\* mutant: the daily statistics are left in place
PurgeAllDataStatsKept(p) ==
  /\ messages' = Restrict(messages, {})
  /\ conversations' = Restrict(conversations, {})
  /\ UNCHANGED stats
  /\ ideal' = [u \in DOMAIN ideal |-> NoIdeal]
  /\ handed' = [c \in DOMAIN handed |-> 0]

\* the three bulk deletes and the commit
PurgeAllData(p) ==
  /\ messages' = Restrict(messages, {})
  /\ conversations' = Restrict(conversations, {})
  /\ stats' = Restrict(stats, {})
  /\ ideal' = [u \in DOMAIN ideal |-> NoIdeal]
  /\ handed' = [c \in DOMAIN handed |-> 0]

\* the counts purge_all_data takes before it deletes (crud.py:513-515)
total_messages == Cardinality(DOMAIN messages)
total_conversations == Cardinality(DOMAIN conversations)
total_stats == Cardinality(DOMAIN stats)

\* mutant: the endpoint does not look at confirm
PurgeEndpointUnconfirmed(p, confirm) ==
  /\ Idle(p)
  /\ PurgeAllData(p)
  /\ last' = [Event("purge_all_data", "done", TRUE, NoConv, 0, Null,
                    total_messages, total_conversations, total_stats)
                EXCEPT !.confirm = confirm]
  /\ UNCHANGED <<nextConv, pc, local, appends>>
  /\ UNCHANGED <<agent, query>>

(***************************************************************************)
(* DELETE /purge (history.py:340-356): HTTP 400 unless confirm is true,    *)
(* else purge_all_data and its counts.                                     *)
(***************************************************************************)
PurgeEndpoint(p, confirm) ==
  /\ Idle(p)
  /\ IF ~confirm
     THEN /\ last' = Event("purge_all_data", "HTTP400", FALSE, NoConv, 0, Null, 0, 0, 0)
          /\ UNCHANGED <<conversations, messages, stats, ideal, handed>>
     ELSE /\ PurgeAllData(p)
          /\ last' = [Event("purge_all_data", "done", TRUE, NoConv, 0, Null,
                            total_messages, total_conversations, total_stats)
                        EXCEPT !.confirm = confirm]
  /\ UNCHANGED <<nextConv, pc, local, appends>>
  /\ UNCHANGED <<agent, query>>

(***************************************************************************)
(* delete_conversation and delete_user_messages as the steps of a request  *)
(* that runs beside other requests.  db.delete(conversation) cascades in   *)
(* the session: it loads conversation.messages and marks these rows and    *)
(* the conversation (crud.py:450, 490-492; models.py:41); the DELETE        *)
(* statements go out with db.commit() (crud.py:451, 503), one per marked    *)
(* row, by primary key.  SQLite does not enforce the foreign key of         *)
(* messages.conversation_id (no PRAGMA foreign_keys, models.py:142-164).    *)
(***************************************************************************)
DeleteConversationLoad(p, c) ==
  /\ Idle(p)
  /\ IF c \in DOMAIN conversations
     THEN /\ local' = [local EXCEPT ![p] =
               [IdleLocal EXCEPT !.conv = c, !.gone = {c}, !.loaded = MessagesOf(c)]]
          /\ pc' = [pc EXCEPT ![p] = "delete_commit"]
          /\ last' = Event("delete_conversation", "begin", TRUE, c, 0, Null, 0, 0, 0)
     ELSE /\ last' = Event("delete_conversation", "done", FALSE, c, 0, Null, 0, 0, 0)
          /\ UNCHANGED <<pc, local>>
  /\ UNCHANGED <<conversations, messages, stats, nextConv, appends, handed, ideal>>
  /\ UNCHANGED <<agent, query>>

\* delete_user_messages up to the loop that marks the conversations
\* (crud.py:482-492)
DeleteUserMessagesLoad(p, ident) ==
  /\ Idle(p)
  /\ LET gone == UserConversations(ident)
     IN IF gone = {}
        THEN /\ last' = Event("delete_user_messages", "done", TRUE, NoConv, 0, ident, 0, 0, 0)
             /\ UNCHANGED <<pc, local>>
        ELSE /\ local' = [local EXCEPT ![p] =
                  [IdleLocal EXCEPT !.user_id = ident, !.gone = gone,
                     !.loaded = {m \in DOMAIN messages : messages[m].conversation_id \in gone}]]
             /\ pc' = [pc EXCEPT ![p] = "delete_user_commit"]
             /\ last' = Event("delete_user_messages", "begin", TRUE, NoConv, 0, ident, 0, 0, 0)
  /\ UNCHANGED <<conversations, messages, stats, nextConv, appends, handed, ideal>>
  /\ UNCHANGED <<agent, query>>

\* the commit of either delete (crud.py:451, 494-503): the bulk DELETE of the
\* statistics rows, then the flush deletes the marked messages and
\* conversations; a row that is gone already is passed over
DeleteCommit(p) ==
  /\ pc[p] \in {"delete_commit", "delete_user_commit"}
  /\ LET l == local[p]
     IN /\ messages' = Restrict(messages, DOMAIN messages \ l.loaded)
        /\ conversations' = Restrict(conversations, DOMAIN conversations \ l.gone)
        /\ handed' = [c \in DOMAIN handed |-> IF c \in l.gone THEN 0 ELSE handed[c]]
        /\ IF pc[p] = "delete_user_commit"
           THEN /\ stats' = Restrict(stats, DOMAIN stats \ UserStatsRows(l.user_id))
                /\ ideal' = [u \in DOMAIN ideal |->
                               IF u = (IF Lower(l.user_id) = AnonymousLit THEN Null
                                       ELSE l.user_id)
                               THEN NoIdeal ELSE ideal[u]]
                /\ last' = Event("delete_user_messages", "done", TRUE, NoConv, 0,
                                 l.user_id, Cardinality(l.gone), Cardinality(l.loaded), 0)
           ELSE /\ UNCHANGED <<stats, ideal>>
                /\ last' = Event("delete_conversation", "done", TRUE, l.conv, 0, Null, 0, 0, 0)
  /\ pc' = [pc EXCEPT ![p] = "idle"]
  /\ local' = [local EXCEPT ![p] = IdleLocal]
  /\ UNCHANGED <<nextConv, appends>>
  /\ UNCHANGED <<agent, query>>

(***************************************************************************)
(* get_conversation_messages (crud.py:146-206) and its endpoint            *)
(* (history.py:67-118).                                                    *)
(***************************************************************************)
\* role_filter values; "" is the absent filter (falsy, like None)
RoleFilters == {"", "user", "assistant"}

\* the fields of the result the endpoint looks at: the number of messages
\* of c that pass the filter, and the user_id of the conversation row
get_conversation_messages(c, role_filter) ==
  [total_messages |->
     Cardinality({m \in MessagesOf(c) :
                    role_filter = "" \/ messages[m].role = role_filter}),
   user_id |-> IF c \in DOMAIN conversations THEN conversations[c].user_id
               ELSE Null]

\* GET /conversations/{conversation_id}: 404 when no message
\* matched and the result's user_id is falsy (None or "")
GetConversationMessages(p, c, role_filter) ==
  /\ Idle(p)
  /\ LET result == get_conversation_messages(c, role_filter)
     IN IF result.total_messages = 0 /\ result.user_id \in {Null, <<>>}
        THEN last' = Event("get_conversation_messages", "HTTP404", FALSE, c, 0,
                           result.user_id, result.total_messages, 0, 0)
        ELSE last' = Event("get_conversation_messages", "done", TRUE, c, 0,
                           result.user_id, result.total_messages, 0, 0)
  /\ UNCHANGED <<conversations, messages, stats, nextConv, pc, local,
                 appends, handed, ideal>>
  /\ UNCHANGED <<agent, query>>

(***************************************************************************)
(* chat_endpoint (chat.py:13-125): get or create the conversation, load    *)
(* the chat history, save the user message, await process_chat, save the   *)
(* reply, answer.  Each add_message runs in the steps above.                *)
(***************************************************************************)
Min(a, b) == IF a <= b THEN a ELSE b

\* the limit chat_endpoint passes to get_conversation_messages
HistoryLimit == 10

\* the orders in which order_by(Message.message_index) can return the
\* message rows S (ids): ascending message_index, rows with equal
\* message_index in any order
RECURSIVE OrderByMessageIndex(_)
OrderByMessageIndex(S) ==
  IF S = {} THEN {<<>>}
  ELSE LET first == {m \in S : \A x \in S :
                       messages[m].message_index <= messages[x].message_index}
       IN UNION {{<<m>> \o t : t \in OrderByMessageIndex(S \ {m})} : m \in first}

\* .offset(skip).limit(limit) of an ordered result
OffsetLimit(rows, skip, limit) ==
  SubSeq(rows, skip + 1, Min(Len(rows), skip + limit))

\* the chat histories chat_endpoint can build for conversation c: the
\* result of get_conversation_messages with skip 0 and limit 10, of which
\* the rows with role user or assistant are converted
chat_history(c) ==
  { SelectSeq(OffsetLimit(rows, 0, HistoryLimit),
              LAMBDA m : messages[m].role \in {"user", "assistant"}) :
      rows \in OrderByMessageIndex(MessagesOf(c)) }

\* chat.py:37-63
ChatBegin(p, cid, u) ==
  /\ Idle(p)
  /\ local[p].chat.pc \in {"idle", "returned", "http500"}
  /\ IF cid # NoConv /\ cid \in DOMAIN conversations
     THEN /\ \E h \in chat_history(cid) :
               local' = [local EXCEPT ![p] =
                 [IdleLocal EXCEPT !.chat =
                    [IdleChat EXCEPT !.pc = "save_user", !.conv = cid,
                                     !.history = h]]]
          /\ last' = [Event("chat", "begin", TRUE, cid, 0, u, 0, 0, 0)
                        EXCEPT !.arg = cid]
          /\ UNCHANGED <<conversations, nextConv>>
     ELSE /\ nextConv <= Len(ConvIdPool)
          /\ LET new == ConvIdPool[nextConv]
             IN /\ conversations' =
                     [c \in DOMAIN conversations \cup {new} |->
                        IF c = new THEN NewConversation(u) ELSE conversations[c]]
                /\ \E h \in chat_history(new) :
                     local' = [local EXCEPT ![p] =
                       [IdleLocal EXCEPT !.chat =
                          [IdleChat EXCEPT !.pc = "save_user", !.conv = new,
                                           !.history = h]]]
                /\ last' = [Event("chat", "begin", TRUE, new, 0, u, 0, 0, 0)
                              EXCEPT !.arg = cid]
          /\ nextConv' = nextConv + 1
  /\ UNCHANGED <<messages, stats, pc, appends, handed, ideal>>
  /\ UNCHANGED <<agent, query>>

\* chat.py:65-80: the user message, with the level the classifier gave it
ChatSaveUser(p, level) ==
  /\ local[p].chat.pc = "save_user"
  /\ AddMessageBegin(p, local[p].chat.conv, Args("user", level, 0, 0, 0))

\* chat.py:85-96: process_chat is awaited; it returns a reply whatever
\* happens in it (agent.py:382-405)
ProcessChat(p) ==
  /\ Idle(p)
  /\ local[p].chat.pc = "model"
  /\ local' = [local EXCEPT ![p].chat.pc = "save_reply",
                            ![p].chat.invoked_after = Len(local[p].chat.saved)]
  /\ last' = Event("chat", "process_chat", TRUE, local[p].chat.conv, 0, Null,
                   Len(local[p].chat.saved), 0, 0)
  /\ UNCHANGED <<conversations, messages, stats, nextConv, pc, appends,
                 handed, ideal>>
  /\ UNCHANGED <<agent, query>>

\* mutant: the endpoint answers without saving the reply
ChatSaveReplySkipped(p, a) ==
  /\ Idle(p)
  /\ local[p].chat.pc = "save_reply"
  /\ local' = [local EXCEPT ![p].chat.pc = "returned"]
  /\ last' = Event("chat", "returned", TRUE, local[p].chat.conv, 0, Null, 0, 0, 0)
  /\ UNCHANGED <<conversations, messages, stats, nextConv, pc, appends,
                 handed, ideal>>
  /\ UNCHANGED <<agent, query>>

\* chat.py:98-121: the reply, with the role, level, tokens and store flag
\* that process_chat returned
ChatSaveReply(p, a) ==
  /\ local[p].chat.pc = "save_reply"
  /\ AddMessageBegin(p, local[p].chat.conv, a)

(***************************************************************************)
(* process_chat, the parsing of the model's raw output (agent.py:269-348). *)
(* Strings are sequences of characters.                                    *)
(***************************************************************************)
NL == "\n"
\* the whitespace of str.strip(), of \s and of JSON that the inputs use
WhiteSpace == {" ", NL}

\* str.strip()
Strip(s) ==
  LET idx == {i \in 1..Len(s) : s[i] \notin WhiteSpace}
  IN IF idx = {} THEN <<>>
     ELSE SubSeq(s, CHOOSE i \in idx : \A j \in idx : i <= j,
                    CHOOSE i \in idx : \A j \in idx : j <= i)

StartsWith(s, prefix) ==
  Len(s) >= Len(prefix) /\ SubSeq(s, 1, Len(prefix)) = prefix

EndsWith(s, suffix) ==
  Len(s) >= Len(suffix) /\ SubSeq(s, Len(s) - Len(suffix) + 1, Len(s)) = suffix

\* str.find / str.rfind of one character, counted from 1; 0 when absent
Find(s, ch) ==
  LET idx == {i \in 1..Len(s) : s[i] = ch}
  IN IF idx = {} THEN 0 ELSE CHOOSE i \in idx : \A j \in idx : i <= j

RFind(s, ch) ==
  LET idx == {i \in 1..Len(s) : s[i] = ch}
  IN IF idx = {} THEN 0 ELSE CHOOSE i \in idx : \A j \in idx : j <= i

\* str.replace(old, new)
RECURSIVE Replace(_, _, _)
Replace(s, old, new) ==
  IF Len(s) < Len(old) THEN s
  ELSE IF StartsWith(s, old)
       THEN new \o Replace(SubSeq(s, Len(old) + 1, Len(s)), old, new)
       ELSE <<s[1]>> \o Replace(Tail(s), old, new)

\* the first position from i on that holds no whitespace (Len(s) + 1 if none)
SkipWs(s, i) ==
  CHOOSE j \in i..(Len(s) + 1) :
    /\ j = Len(s) + 1 \/ s[j] \notin WhiteSpace
    /\ \A k \in i..(j - 1) : s[k] \in WhiteSpace

\* the backquote character
BQ == "BACKQUOTE"
Fence == <<BQ, BQ, BQ>>
FenceJson == <<BQ, BQ, BQ, "j", "s", "o", "n">>

\* "Clean markdown" (agent.py:276-283)
CleanMarkdown(raw_output) ==
  LET t0 == Strip(raw_output)
      t1 == IF StartsWith(t0, FenceJson) THEN SubSeq(t0, 8, Len(t0))
            ELSE IF StartsWith(t0, Fence) THEN SubSeq(t0, 4, Len(t0))
            ELSE t0
      t2 == IF EndsWith(t1, Fence) THEN SubSeq(t1, 1, Len(t1) - 3) ELSE t1
  IN Strip(t2)

\* "Fix trailing commas" (agent.py:298): a comma, any whitespace and a
\* closing brace or bracket become the brace or bracket
RECURSIVE FixTrailingCommas(_)
FixTrailingCommas(s) ==
  IF s = <<>> THEN <<>>
  ELSE IF s[1] = ","
       THEN LET j == SkipWs(s, 2)
            IN IF j <= Len(s) /\ s[j] \in {"}", "]"}
               THEN <<s[j]>> \o FixTrailingCommas(SubSeq(s, j + 1, Len(s)))
               ELSE <<",">> \o FixTrailingCommas(Tail(s))
       ELSE <<s[1]>> \o FixTrailingCommas(Tail(s))

(***************************************************************************)
(* json.loads, for the JSON the raw outputs of the model use: objects,     *)
(* strings with the escapes \" \\ \/ \n, integers and null, true, false.   *)
(* A parse result is [ok, pos, val, members]: pos is the position after    *)
(* what was read, members the key-value pairs of an object.                *)
(***************************************************************************)
JSONDecodeError == [ok |-> FALSE, pos |-> 0, val |-> OtherValue(FALSE), members |-> <<>>]

Parsed(pos, val, members) == [ok |-> TRUE, pos |-> pos, val |-> val, members |-> members]

Digits == {"0", "1", "2", "3", "4", "5", "6", "7", "8", "9"}

RECURSIVE ScanString(_, _, _)
RECURSIVE ParseValue(_, _)
RECURSIVE ParseObject(_, _)
RECURSIVE ParseMembers(_, _, _)

\* the rest of a JSON string whose opening quote is before position j
ScanString(s, j, acc) ==
  IF j > Len(s) THEN JSONDecodeError
  ELSE IF s[j] = "\"" THEN Parsed(j + 1, StrValue(acc), <<>>)
  ELSE IF s[j] = "\\"
       THEN IF j + 1 > Len(s) THEN JSONDecodeError
            ELSE IF s[j + 1] = "n" THEN ScanString(s, j + 2, Append(acc, NL))
            ELSE IF s[j + 1] \in {"\"", "\\", "/"}
                 THEN ScanString(s, j + 2, Append(acc, s[j + 1]))
            ELSE JSONDecodeError
  ELSE IF s[j] = NL THEN JSONDecodeError
  ELSE ScanString(s, j + 1, Append(acc, s[j]))

ParseValue(s, i) ==
  LET j == SkipWs(s, i)
  IN IF j > Len(s) THEN JSONDecodeError
     ELSE IF s[j] = "\"" THEN ScanString(s, j + 1, <<>>)
     ELSE IF s[j] = "{"
          THEN LET r == ParseObject(s, j)
               IN IF r.ok THEN Parsed(r.pos, DictValue(r.members), <<>>)
                  ELSE JSONDecodeError
     ELSE IF s[j] = "0" THEN Parsed(j + 1, OtherValue(FALSE), <<>>)
     ELSE IF s[j] \in Digits
          THEN Parsed(CHOOSE k \in (j + 1)..(Len(s) + 1) :
                        /\ k = Len(s) + 1 \/ s[k] \notin Digits
                        /\ \A m \in (j + 1)..(k - 1) : s[m] \in Digits,
                      OtherValue(TRUE), <<>>)
     ELSE IF SubSeq(s, j, j + 3) = <<"n", "u", "l", "l">>
          THEN Parsed(j + 4, OtherValue(FALSE), <<>>)
     ELSE IF SubSeq(s, j, j + 3) = <<"t", "r", "u", "e">>
          THEN Parsed(j + 4, OtherValue(TRUE), <<>>)
     ELSE IF SubSeq(s, j, j + 4) = <<"f", "a", "l", "s", "e">>
          THEN Parsed(j + 5, OtherValue(FALSE), <<>>)
     ELSE JSONDecodeError

\* the object whose opening brace is at position i
ParseObject(s, i) ==
  LET j == SkipWs(s, i + 1)
  IN IF j > Len(s) THEN JSONDecodeError
     ELSE IF s[j] = "}" THEN Parsed(j + 1, OtherValue(FALSE), <<>>)
     ELSE ParseMembers(s, j, <<>>)

\* the members of an object from position j on, after the pairs in acc
ParseMembers(s, j, acc) ==
  IF j > Len(s) \/ s[j] # "\"" THEN JSONDecodeError
  ELSE LET k == ScanString(s, j + 1, <<>>)
       IN IF ~k.ok THEN JSONDecodeError
          ELSE LET c == SkipWs(s, k.pos)
               IN IF c > Len(s) \/ s[c] # ":" THEN JSONDecodeError
                  ELSE LET v == ParseValue(s, c + 1)
                       IN IF ~v.ok THEN JSONDecodeError
                          ELSE LET e == SkipWs(s, v.pos)
                                   acc2 == Append(acc, <<k.val.text, v.val>>)
                               IN IF e > Len(s) THEN JSONDecodeError
                                  ELSE IF s[e] = "}"
                                       THEN Parsed(e + 1, OtherValue(TRUE), acc2)
                                  ELSE IF s[e] = ","
                                       THEN ParseMembers(s, SkipWs(s, e + 1), acc2)
                                  ELSE JSONDecodeError

\* json.loads(s), s being the text from the first "{" to the last "}"
JsonLoads(s) ==
  LET j == SkipWs(s, 1)
  IN IF j > Len(s) \/ s[j] # "{" THEN JSONDecodeError
     ELSE LET r == ParseObject(s, j)
          IN IF r.ok /\ SkipWs(s, r.pos) > Len(s) THEN r ELSE JSONDecodeError

\* data.get(key, default): the last pair with the key wins
DictGet(members, key, default) ==
  LET idx == {i \in 1..Len(members) : members[i][1] = key}
  IN IF idx = {} THEN default
     ELSE members[CHOOSE i \in idx : \A j \in idx : j <= i][2]

(***************************************************************************)
(* The extraction stages (agent.py:288-325).                               *)
(***************************************************************************)
ReplyKey == <<"\"", "r", "e", "p", "l", "y", "\"", ":">>

NoMatch == [found |-> FALSE, group |-> <<>>]

\* re.search of "reply": whitespace, a quote, as few characters as
\* possible, a quote; strict asks that the closing quote does not follow a
\* backslash (agent.py:307), the loose pattern (agent.py:320) does not
SearchReply(text, strict) ==
  LET Open(p) == SkipWs(text, p + Len(ReplyKey))
      Closers(p) == {q \in (Open(p) + 1)..Len(text) :
                       text[q] = "\"" /\ (strict => text[q - 1] # "\\")}
      starts == {p \in 1..Len(text) :
                   /\ StartsWith(SubSeq(text, p, Len(text)), ReplyKey)
                   /\ Open(p) <= Len(text)
                   /\ text[Open(p)] = "\""
                   /\ Closers(p) # {}}
  IN IF starts = {} THEN NoMatch
     ELSE LET p == CHOOSE x \in starts : \A y \in starts : x <= y
              q == CHOOSE x \in Closers(p) : \A y \in Closers(p) : x <= y
          IN [found |-> TRUE, group |-> SubSeq(text, Open(p) + 1, q - 1)]

\* stages 1 and 2: json.loads of the text from the first "{" to the last
\* "}", else the strict pattern, else the text itself
Extract(clean_text) ==
  LET start == Find(clean_text, "{")
      end == RFind(clean_text, "}")
  IN IF start # 0 /\ end # 0
     THEN LET json_candidate == FixTrailingCommas(SubSeq(clean_text, start, end))
              data == JsonLoads(json_candidate)
              match == SearchReply(clean_text, TRUE)
          IN IF data.ok THEN DictGet(data.members, SubSeq(ReplyKey, 2, 6), StrValue(<<>>))
             ELSE IF match.found
                  THEN StrValue(Replace(Replace(match.group, <<"\\", "\"">>, <<"\"">>),
                                        <<"\\", "n">>, <<NL>>))
                  ELSE StrValue(clean_text)
     ELSE StrValue(clean_text)

MetadataKey == <<"m", "e", "t", "a", "d", "a", "t", "a">>
RoleKey == <<"r", "o", "l", "e">>
SenderKey == <<"s", "e", "n", "d", "e", "r">>
StoreKey == <<"s", "t", "o", "r", "e">>
Assistant == <<"a", "s", "s", "i", "s", "t", "a", "n", "t">>

\* the metadata of stage 1 (agent.py:299-301): data.get("metadata", {}) when
\* json.loads succeeds; every other path leaves the {} of agent.py:286
ExtractMetadata(clean_text) ==
  LET start == Find(clean_text, "{")
      end == RFind(clean_text, "}")
  IN IF start # 0 /\ end # 0
     THEN LET data == JsonLoads(FixTrailingCommas(SubSeq(clean_text, start, end)))
          IN IF data.ok THEN DictGet(data.members, MetadataKey, DictValue(<<>>))
             ELSE DictValue(<<>>)
     ELSE DictValue(<<>>)

\* str.strip of the quote character
RECURSIVE StripQuotes(_)
StripQuotes(s) ==
  IF s = <<>> THEN s
  ELSE IF s[1] = "\"" THEN StripQuotes(Tail(s))
  ELSE IF s[Len(s)] = "\"" THEN StripQuotes(SubSeq(s, 1, Len(s) - 1))
  ELSE s

\* stage 3: a reply that still looks like the JSON is taken apart again
DoubleCheck(ai_reply) ==
  IF /\ ai_reply.kind = "str"
     /\ StartsWith(Strip(ai_reply.text), <<"{">>)
     /\ Contains(ReplyKey, ai_reply.text)
  THEN LET clean_match == SearchReply(ai_reply.text, FALSE)
       IN IF clean_match.found THEN StrValue(clean_match.group)
          ELSE StrValue(StripQuotes(Strip(
                 Replace(Replace(Replace(ai_reply.text, <<"{">>, <<>>),
                                 <<"}">>, <<>>), ReplyKey, <<>>))))
  ELSE ai_reply

\* the canned replies, each one character of the model
CouldNotGenerate == <<"could-not-generate (Bangla)">>
Apology(language) ==
  IF language = "BN" THEN <<"please-try-again (Bangla)">>
  ELSE <<"I apologize, Please try asking again.">>
ErrorReply == <<"I'm sorry, I encountered an error processing your request. Please try again.">>

\* mutant: an empty reply is never replaced by the raw output
RevertToRawNever(ai_reply, raw_output) == ai_reply.text

\* stage 4, the fail-safe (agent.py:327-335): an empty or blank reply is
\* replaced by the raw output, or by the canned reply if that is blank too
RevertToRaw(ai_reply, raw_output) ==
  IF ~ai_reply.truthy \/ Strip(ai_reply.text) = <<>>
  THEN IF Strip(raw_output) # <<>> THEN raw_output ELSE CouldNotGenerate
  ELSE ai_reply.text

\* "Final cleanup of escaped newlines" (agent.py:338)
FinalCleanup(ai_reply) == Strip(Replace(ai_reply, <<"\\", "n">>, <<NL>>))

\* the default of agent.py:342
DefaultMetadata ==
  DictValue(<<<<RoleKey, StrValue(Assistant)>>, <<SenderKey, StrValue(Assistant)>>,
              <<StoreKey, OtherValue(TRUE)>>>>)

\* mutant: a metadata that is empty stays empty
EnsureMetadataDefaultsNever(metadata) == metadata

\* "Ensure metadata defaults" (agent.py:340-342)
EnsureMetadataDefaults(metadata) ==
  IF ~metadata.truthy THEN DefaultMetadata ELSE metadata

\* the metadata of the error response (agent.py:390-394)
ErrorMetadata ==
  DictValue(<<<<RoleKey, StrValue(Assistant)>>, <<SenderKey, StrValue(Assistant)>>,
              <<StoreKey, OtherValue(FALSE)>>>>)

\* the call raises inside the try block: a truthy reply that is no str has
\* no strip() (agent.py:329), a truthy metadata that is no dict has no get()
\* (agent.py:362)
Raises(extracted, metadata) ==
  \/ extracted.kind # "str" /\ extracted.truthy
  \/ metadata.kind # "dict"

\* the reply process_chat returns for a raw output whose extraction gave
\* extracted; a truthy value that is no str has no strip(), the
\* AttributeError at agent.py:329 ends in the error reply (agent.py:382-388)
FinalReply(extracted, raw_output, language) ==
  IF extracted.kind # "str" /\ extracted.truthy THEN ErrorReply
  ELSE LET ai_reply == FinalCleanup(RevertToRaw(extracted, raw_output))
       IN IF ai_reply = <<>> THEN Apology(language) ELSE ai_reply

(***************************************************************************)
(* Raw outputs of the model: a body, bare or in a markdown fence, with or  *)
(* without whitespace around it.                                           *)
(***************************************************************************)
RawBodies ==
  {
    \* a plain sentence
    <<"h", "i">>,
    \* nothing
    <<>>,
    \* the JSON asked for
    <<"{", "\"", "r", "e", "p", "l", "y", "\"", ":", " ", "\"", "h", "i", "\"", "}">>,
    \* an empty reply
    <<"{", "\"", "r", "e", "p", "l", "y", "\"", ":", " ", "\"", "\"", "}">>,
    \* a blank reply
    <<"{", "\"", "r", "e", "p", "l", "y", "\"", ":", " ", "\"", " ", "\"", "}">>,
    \* a trailing comma
    <<"{", "\"", "r", "e", "p", "l", "y", "\"", ":", " ", "\"", "h", "i", "\"", ",", "}">>,
    \* cut off before the closing brace
    <<"{", "\"", "r", "e", "p", "l", "y", "\"", ":", " ", "\"", "h", "i", "\"">>,
    \* a number as reply
    <<"{", "\"", "r", "e", "p", "l", "y", "\"", ":", " ", "5", "}">>,
    \* zero as reply
    <<"{", "\"", "r", "e", "p", "l", "y", "\"", ":", " ", "0", "}">>,
    \* null as reply
    <<"{", "\"", "r", "e", "p", "l", "y", "\"", ":", " ", "n", "u", "l", "l", "}">>,
    \* the JSON once more inside the reply
    <<"{", "\"", "r", "e", "p", "l", "y", "\"", ":", " ", "\"", "{", "\\", "\"", "r", "e", "p", "l", "y", "\\", "\"", ":", " ", "\\", "\"", "h", "i", "\\", "\"", "}", "\"", "}">>,
    \* JSON with a number inside the reply
    <<"{", "\"", "r", "e", "p", "l", "y", "\"", ":", " ", "\"", "{", "\\", "\"", "r", "e", "p", "l", "y", "\\", "\"", ":", " ", "5", "}", "\"", "}">>,
    \* no reply key
    <<"{", "\"", "m", "e", "t", "a", "d", "a", "t", "a", "\"", ":", " ", "{", "}", "}">>,
    \* keys without quotes
    <<"{", "r", "e", "p", "l", "y", ":", " ", "h", "i", "}">>,
    \* a backslash and an n
    <<"\\", "n">>,
    \* an empty object
    <<"{", "}">>,
    \* an escaped newline as reply
    <<"{", "\"", "r", "e", "p", "l", "y", "\"", ":", " ", "\"", "\\", "n", "\"", "}">>,
    \* invalid JSON, empty reply
    <<"{", "\"", "r", "e", "p", "l", "y", "\"", ":", " ", "\"", "\"", " ", "x", "}">>,
    \* invalid JSON, escaped quote in the reply
    <<"{", "\"", "r", "e", "p", "l", "y", "\"", ":", " ", "\"", "a", "\\", "\"", "b", "\"", " ", "x", "}">>,
    \* reply and metadata
    <<"{", "\"", "r", "e", "p", "l", "y", "\"", ":", " ", "\"", "h", "i", "\"", ",", " ", "\"", "m", "e", "t", "a", "d", "a", "t", "a", "\"", ":", " ", "{", "\"", "s", "t", "o", "r", "e", "\"", ":", " ", "f", "a", "l", "s", "e", "}", "}">>,
    \* text around the JSON
    <<"x", " ", "{", "\"", "r", "e", "p", "l", "y", "\"", ":", " ", "\"", "h", "i", "\"", "}", " ", "y">>,
    \* an object as reply
    <<"{", "\"", "r", "e", "p", "l", "y", "\"", ":", " ", "{", "\"", "a", "\"", ":", " ", "1", "}", "}">>,
    \* a comma before a brace inside the reply
    <<"{", "\"", "r", "e", "p", "l", "y", "\"", ":", " ", "\"", "a", ",", "}", "\"", "}">>,
    \* the reply pair without braces
    <<"\"", "r", "e", "p", "l", "y", "\"", ":", " ", "\"", "h", "i", "\"">>,
    \* an escaped newline inside the reply
    <<"{", "\"", "r", "e", "p", "l", "y", "\"", ":", " ", "\"", "h", "i", "\\", "n", "y", "o", "\"", "}">>,
    \* braces the wrong way round
    <<"}", "{">>,
    \* an empty metadata object
    <<"{", "\"", "r", "e", "p", "l", "y", "\"", ":", " ", "\"", "h", "i", "\"", ",", " ", "\"", "m", "e", "t", "a", "d", "a", "t", "a", "\"", ":", " ", "{", "}", "}">>,
    \* a string as metadata
    <<"{", "\"", "r", "e", "p", "l", "y", "\"", ":", " ", "\"", "h", "i", "\"", ",", " ", "\"", "m", "e", "t", "a", "d", "a", "t", "a", "\"", ":", " ", "\"", "x", "\"", "}">>,
    \* null as metadata
    <<"{", "\"", "r", "e", "p", "l", "y", "\"", ":", " ", "\"", "h", "i", "\"", ",", " ", "\"", "m", "e", "t", "a", "d", "a", "t", "a", "\"", ":", " ", "n", "u", "l", "l", "}">>
  }

RawPrefixes == {<<>>, <<" ">>, <<BQ, BQ, BQ, "j", "s", "o", "n", NL>>, <<BQ, BQ, BQ, NL>>}
RawSuffixes == {<<>>, <<NL>>, <<NL, BQ, BQ, BQ>>}

\* a text as a JSON string (json.dumps)
RECURSIVE JsonEscape(_)
JsonEscape(text) ==
  IF text = <<>> THEN <<>>
  ELSE (IF text[1] = NL THEN <<"\\", "n">>
        ELSE IF text[1] \in {"\"", "\\"} THEN <<"\\", text[1]>>
        ELSE <<text[1]>>) \o JsonEscape(Tail(text))

JsonString(text) == <<"\"">> \o JsonEscape(text) \o <<"\"">>

\* the text of the object {"store": flag}
StoreObject(flag) ==
  <<"{">> \o JsonString(StoreKey) \o <<":", " ">>
    \o (IF flag THEN <<"t", "r", "u", "e">> ELSE <<"f", "a", "l", "s", "e">>) \o <<"}">>

\* the well-formed answer: an object with a string reply and a metadata object
WellFormed(reply, store) ==
  <<"{">> \o SubSeq(ReplyKey, 1, 8) \o <<" ">> \o JsonString(reply) \o <<",", " ">>
    \o JsonString(MetadataKey) \o <<":", " ">> \o StoreObject(store) \o <<"}">>

\* replies without surrounding whitespace, escaped newlines or JSON in them:
\* a greeting, a quotation, a comma before a closing brace or bracket
PlainReplies ==
  {<<"h", "i">>, <<"a", "\"", "b">>, <<"a", ",", "}">>, <<"[", "1", ",", " ", "]">>}

WellFormedBodies == {WellFormed(reply, store) : reply \in PlainReplies, store \in BOOLEAN}

RawOutputs ==
  {pre \o body \o suf : pre \in RawPrefixes, body \in RawBodies \cup WellFormedBodies,
                        suf \in RawSuffixes}

ParseInit ==
  /\ \E raw \in RawOutputs, lang \in Languages :
       agent = [IdleAgent EXCEPT !.pc = "parse", !.raw_output = raw, !.language = lang]
  /\ query = IdleQuery
  /\ conversations = [c \in {} |-> NewConversation(Null)]
  /\ messages = [m \in {} |-> NoArgs]
  /\ stats = [r \in {} |-> NewDailyStatistics(Null)]
  /\ nextConv = 1
  /\ pc = [p \in Procs |-> "idle"]
  /\ local = [p \in Procs |-> IdleLocal]
  /\ last = Event("init", "done", TRUE, NoConv, 0, Null, 0, 0, 0)
  /\ appends = [p \in Procs |-> 0]
  /\ handed = [c \in ConvIds |-> 0]
  /\ ideal = [u \in UserIds |-> NoIdeal]

\* process_chat from the raw output to the reply (agent.py:269-348)
ProcessChatParse ==
  /\ agent.pc = "parse"
  /\ LET extracted == DoubleCheck(Extract(CleanMarkdown(agent.raw_output)))
         metadata == EnsureMetadataDefaults(ExtractMetadata(CleanMarkdown(agent.raw_output)))
     IN agent' = [agent EXCEPT
                    !.extracted = extracted,
                    !.ai_reply = IF Raises(extracted, metadata) THEN ErrorReply
                                 ELSE FinalReply(extracted, agent.raw_output, agent.language),
                    !.metadata = IF Raises(extracted, metadata) THEN ErrorMetadata
                                 ELSE metadata,
                    !.pc = "parsed"]
  /\ UNCHANGED <<conversations, messages, stats, nextConv, pc, local, last,
                 appends, handed, ideal, query>>

(***************************************************************************)
(* process_chat (agent.py:206-405), the classification of the message      *)
(* (agent.py:233-234).                                                     *)
(***************************************************************************)
ClassifyInit ==
  /\ \E m \in UserMessages : agent = [IdleAgent EXCEPT !.pc = "classify", !.message = m]
  /\ query = IdleQuery
  /\ conversations = [c \in {} |-> NewConversation(Null)]
  /\ messages = [m \in {} |-> NoArgs]
  /\ stats = [r \in {} |-> NewDailyStatistics(Null)]
  /\ nextConv = 1
  /\ pc = [p \in Procs |-> "idle"]
  /\ local = [p \in Procs |-> IdleLocal]
  /\ last = Event("init", "done", TRUE, NoConv, 0, Null, 0, 0, 0)
  /\ appends = [p \in Procs |-> 0]
  /\ handed = [c \in ConvIds |-> 0]
  /\ ideal = [u \in UserIds |-> NoIdeal]

ProcessChatClassify ==
  /\ agent.pc = "classify"
  /\ agent' = [agent EXCEPT !.msg_level = classify_message_level(agent.message),
                            !.msg_category = detect_category(agent.message),
                            !.pc = "classified"]
  /\ UNCHANGED <<conversations, messages, stats, nextConv, pc, local, last,
                 appends, handed, ideal, query>>

(***************************************************************************)
(* The page envelope of the paginated queries: get_conversation_messages   *)
(* (crud.py:146-206), get_all_conversations (crud.py:207-257),             *)
(* get_user_messages_paginated (crud.py:272-334) and search_messages       *)
(* (crud.py:528-566).  The endpoints admit skip >= 0 and limit >= 1        *)
(* (history.py:19-20, 70-71); total is the count of the filtered query.    *)
(***************************************************************************)
MaxSkip == 40
MaxLimit == 20
MaxTotal == 45

\* "page": (skip // limit) + 1
page(skip, limit) == (skip \div limit) + 1

\* mutant: the pages are counted by rounding down
total_pagesFloor(total, limit) == total \div limit

\* "total_pages": (total + limit - 1) // limit
total_pages(total, limit) == (total + limit - 1) \div limit

PaginatedQueries ==
  {"get_conversation_messages", "get_all_conversations",
   "get_user_messages_paginated", "search_messages"}

PageInit ==
  /\ \E skip \in 0..MaxSkip, limit \in 1..MaxLimit, total \in 0..MaxTotal :
       query = [IdleQuery EXCEPT !.pc = "call", !.skip = skip, !.limit = limit,
                                 !.total = total]
  /\ agent = IdleAgent
  /\ conversations = [c \in {} |-> NewConversation(Null)]
  /\ messages = [m \in {} |-> NoArgs]
  /\ stats = [r \in {} |-> NewDailyStatistics(Null)]
  /\ nextConv = 1
  /\ pc = [p \in Procs |-> "idle"]
  /\ local = [p \in Procs |-> IdleLocal]
  /\ last = Event("init", "done", TRUE, NoConv, 0, Null, 0, 0, 0)
  /\ appends = [p \in Procs |-> 0]
  /\ handed = [c \in ConvIds |-> 0]
  /\ ideal = [u \in UserIds |-> NoIdeal]

\* the return value of a paginated query, as far as page and total_pages go
PaginatedQuery(op) ==
  /\ query.pc = "call"
  /\ query' = [query EXCEPT !.pc = "done", !.op = op,
                            !.page = page(query.skip, query.limit),
                            !.total_pages = total_pages(query.total, query.limit)]
  /\ UNCHANGED <<conversations, messages, stats, nextConv, pc, local, last,
                 appends, handed, ideal, agent>>

(***************************************************************************)
(* Specifications.  Spec: one client, one request at a time, every         *)
(* operation of the store.  RaceSpec: the requests of two clients creating *)
(* conversations and adding messages, their steps interleaved.             *)
(***************************************************************************)
MessageIds == 1..(MaxAppends + 1)

AddMessageStep(p) ==
  \/ AddMessageCommit(p)
  \/ AddMessageCommitFail(p)
  \/ UpdateDailyStatsRead(p)
  \/ UpdateDailyStatsCommit(p)
  \/ UpdateDailyStatsFail(p)

Next ==
  \/ \E u \in UserIds : CreateConversation("p1", u)
  \/ \E c \in ConvIds, a \in ChatArgs : AddMessageBegin("p1", c, a)
  \/ AddMessageStep("p1")
  \/ \E id \in MessageIds : DeleteMessage("p1", id)
  \/ \E c \in ConvIds : DeleteConversation("p1", c)
  \/ \E ident \in Identifiers : DeleteUserMessages("p1", ident)
  \/ \E confirm \in BOOLEAN : PurgeEndpoint("p1", confirm)

Spec == Init /\ [][Next]_vars

RaceNext ==
  \E p \in Procs :
    \/ CreateConversation(p, U1)
    \/ \E c \in ConvIds, a \in ChatArgs : AddMessageBegin(p, c, a)
    \/ AddMessageStep(p)

RaceSpec == Init /\ [][RaceNext]_vars

\* AvgSpec: one client, assistant replies with three response times
AvgNext ==
  \/ \E u \in UserIds : CreateConversation("p1", u)
  \/ \E c \in ConvIds, a \in ReplyArgs : AddMessageBegin("p1", c, a)
  \/ AddMessageStep("p1")

AvgSpec == Init /\ [][AvgNext]_vars

\* StoreSpec: one client, replies saved with store true and store false
StoreNext ==
  \/ \E u \in UserIds : CreateConversation("p1", u)
  \/ \E c \in ConvIds, a \in StoreArgs : AddMessageBegin("p1", c, a)
  \/ AddMessageStep("p1")

StoreSpec == Init /\ [][StoreNext]_vars

\* ReadSpec: one client creating conversations, adding messages and
\* reading them back
ReadNext ==
  \/ \E u \in UserIds : CreateConversation("p1", u)
  \/ \E c \in ConvIds, a \in ChatArgs : AddMessageBegin("p1", c, a)
  \/ AddMessageStep("p1")
  \/ \E c \in ConvIds, f \in RoleFilters : GetConversationMessages("p1", c, f)

ReadSpec == Init /\ [][ReadNext]_vars

\* ClassifySpec: the classifier applied to every message of UserMessages
ClassifyNext == ProcessChatClassify

ClassifySpec == ClassifyInit /\ [][ClassifyNext]_vars

\* DeleteRaceSpec: p1 creates conversations and adds messages while p2
\* deletes conversations, a user's data, or everything
DeleteRaceNext ==
  \/ CreateConversation("p1", U1)
  \/ \E c \in ConvIds : AddMessageBegin("p1", c, Args("user", "low", 0, 0, 0))
  \/ AddMessageStep("p1")
  \/ \E c \in ConvIds : DeleteConversationLoad("p2", c)
  \/ DeleteUserMessagesLoad("p2", U1)
  \/ DeleteCommit("p2")
  \/ PurgeEndpoint("p2", TRUE)

DeleteRaceSpec == Init /\ [][DeleteRaceNext]_vars

\* ConvSpec: one client that gets or creates conversations, with an existing
\* id, an unknown id or none, and adds messages
ConvNext ==
  \/ \E cid \in DOMAIN conversations \cup {NoConv, UnknownConv},
        u \in UserIds \cup {<<>>}, lang \in Languages :
       GetOrCreateConversation("p1", cid, u, lang)
  \/ \E c \in ConvIds, a \in ChatArgs : AddMessageBegin("p1", c, a)
  \/ AddMessageStep("p1")

ConvSpec == Init /\ [][ConvNext]_vars

\* the longest conversation HistorySpec starts from
MaxHistory == 11

\* HistorySpec: a chat request arrives for a conversation of user U1 that
\* already holds n messages, n from 0 to MaxHistory, saved one after the
\* other with the roles user and assistant in any pattern
HistoryInit ==
  \E n \in 0..MaxHistory : \E roles \in [1..n -> {"user", "assistant"}] :
    LET users == Cardinality({i \in 1..n : roles[i] = "user"})
    IN /\ agent = IdleAgent
       /\ query = IdleQuery
       /\ conversations = [c \in {"c1"} |->
                             [NewConversation(U1) EXCEPT !.total_messages = n]]
       /\ messages = [m \in 1..n |->
                        [conversation_id |-> "c1", role |-> roles[m],
                         message_index |-> m, message_level |-> "low",
                         tokens_used |-> 0, response_time_ms |-> 0,
                         api_calls_made |-> 0, store |-> TRUE]]
       /\ stats = [r \in (IF n = 0 THEN {} ELSE {1}) |->
                     [NewDailyStatistics(U1) EXCEPT
                        !.total_messages = n, !.user_messages = users,
                        !.assistant_messages = n - users,
                        !.low_level_count = n]]
       /\ nextConv = 2
       /\ pc = [p \in Procs |-> "idle"]
       /\ local = [p \in Procs |-> IdleLocal]
       /\ last = Event("init", "done", TRUE, NoConv, 0, Null, 0, 0, 0)
       /\ appends = [p \in Procs |-> 0]
       /\ handed = [c \in ConvIds |-> IF c = "c1" THEN n ELSE 0]
       /\ ideal = [u \in UserIds |->
                     IF u = U1
                     THEN [NoIdeal EXCEPT
                             !.total_messages = n, !.user_messages = users,
                             !.assistant_messages = n - users,
                             !.levels = [l \in Levels |->
                                           IF l = "low" THEN n ELSE 0]]
                     ELSE NoIdeal]

HistoryNext ==
  \E cid \in DOMAIN conversations \cup {NoConv} : ChatBegin("p1", cid, U1)

HistorySpec == HistoryInit /\ [][HistoryNext]_vars

\* ChatRaceSpec: two clients send one chat request each, for the same
\* conversation or for new ones, and the steps of the two requests interleave
ChatRaceNext ==
  \E p \in Procs :
    \/ /\ local[p].chat.pc = "idle"
       /\ \E cid \in DOMAIN conversations \cup {NoConv} : ChatBegin(p, cid, U1)
    \/ ChatSaveUser(p, "low")
    \/ ProcessChat(p)
    \/ \E a \in StoreArgs : ChatSaveReply(p, a)
    \/ AddMessageStep(p)

ChatRaceSpec == Init /\ [][ChatRaceNext]_vars

\* PageSpec: a paginated query for every skip, limit and total of the bounds
PageNext == \E op \in PaginatedQueries : PaginatedQuery(op)

PageSpec == PageInit /\ [][PageNext]_vars

\* ParseSpec: the parser applied to every raw output of RawOutputs
ParseNext == ProcessChatParse

ParseSpec == ParseInit /\ [][ParseNext]_vars

(***************************************************************************)
(* Properties.                                                             *)
(***************************************************************************)
AllIdle == \A p \in Procs : Idle(p)

\* a step that completed (or refused) a call of operation op
Called(op) == last' # last /\ last'.op = op

\* C1: every existing conversation's total_messages equals the number of
\* message rows whose conversation_id is its id.
C1_TotalMessagesIsCount ==
  \A c \in DOMAIN conversations :
    conversations[c].total_messages = Cardinality(MessagesOf(c))

C1_Witness ==
  /\ last.op = "delete_message" /\ last.ok
  /\ last.conv \in DOMAIN conversations
  /\ conversations[last.conv].total_messages = 1

C3_NoDuplicateIndex ==
  \A m1, m2 \in DOMAIN messages :
    (m1 # m2 /\ messages[m1].conversation_id = messages[m2].conversation_id)
      => messages[m1].message_index # messages[m2].message_index

BucketRows(u) == {r \in DOMAIN stats : stats[r].date = Today /\ stats[r].user_id = u}

BucketSum(u, field) ==
  SumOver([r \in BucketRows(u) |-> stats[r][field]], BucketRows(u))

\* C4: once the concurrent add_message calls have completed, the counters
\* of a daily bucket reflect every message recorded in it.
C4_NoLostUpdate ==
  AllIdle =>
    \A u \in UserIds :
      /\ BucketSum(u, "total_messages") = ideal[u].total_messages
      /\ BucketSum(u, "total_tokens") = ideal[u].total_tokens
      /\ BucketSum(u, "total_api_calls") = ideal[u].total_api_calls
      /\ \A l \in Levels : BucketSum(u, level_map(l)) = ideal[u].levels[l]

\* C5: after an add_message call that failed, no message row of that call
\* exists and the conversation's counter is what it was before the call.
C5_AppendAllOrNothing ==
  (last.op = "add_message" /\ last.stage = "StorageFailure")
    => /\ last.id \notin DOMAIN messages
       /\ last.conv \in DOMAIN conversations
            => conversations[last.conv].total_messages = last.y

\* C6: a bucket that has recorded only assistant messages with positive
\* response times has avg_response_time_ms equal to their arithmetic mean.
C6_AverageIsMean ==
  \A r \in DOMAIN stats :
    LET g == ideal[stats[r].user_id]
    IN (AllIdle /\ g.rt_count > 0 /\ g.rt_count = g.total_messages
          /\ BucketRows(stats[r].user_id) = {r})
         => stats[r].avg_response_time_ms[1] * g.rt_count
              = g.rt_sum * stats[r].avg_response_time_ms[2]

\* C7: add_message with a conversation id that does not exist raises the
\* not-found error (ValueError) and changes no conversation, message or
\* statistics row.
C7_AppendUnknownConversation ==
  [][(Called("add_message")
        /\ (last'.conv \notin DOMAIN conversations \/ last'.stage = "ValueError"))
       => /\ last'.stage = "ValueError"
          /\ ~last'.ok
          /\ last'.conv \notin DOMAIN conversations
          /\ UNCHANGED db]_vars

C7_Witness ==
  /\ last.op = "add_message" /\ last.stage = "ValueError"
  /\ DOMAIN messages # {}
  /\ DOMAIN stats # {}

\* C8: delete_message on an existing id removes exactly that row, takes 1
\* off the parent's total_messages and the message's tokens off its
\* total_tokens_used (neither below zero), leaves every other row as it
\* was and returns true; on a missing id it returns false and changes
\* nothing.
C8_DeleteMessage ==
  [][Called("delete_message") =>
       LET id == last'.id IN
       IF last'.ok
       THEN /\ id \in DOMAIN messages
            /\ messages' = Restrict(messages, DOMAIN messages \ {id})
            /\ LET c == messages[id].conversation_id IN
               /\ c \in DOMAIN conversations
               /\ DOMAIN conversations' = DOMAIN conversations
               /\ \A d \in DOMAIN conversations \ {c} :
                    conversations'[d] = conversations[d]
               /\ conversations'[c].total_messages
                    = conversations[c].total_messages - 1
               /\ conversations'[c].total_tokens_used
                    = conversations[c].total_tokens_used - messages[id].tokens_used
               /\ conversations'[c].total_messages >= 0
               /\ conversations'[c].total_tokens_used >= 0
               /\ conversations'[c].user_id = conversations[c].user_id
               /\ conversations'[c].session_type = conversations[c].session_type
       ELSE /\ id \notin DOMAIN messages
            /\ UNCHANGED db]_vars

\* a message with tokens has been deleted and a sibling is left
C8_Witness ==
  /\ last.op = "delete_message" /\ last.ok
  /\ MessagesOf(last.conv) # {}
  /\ conversations[last.conv].total_tokens_used = 0
  /\ appends["p1"] = 2
  /\ \E m \in MessagesOf(last.conv) : messages[m].message_index = 1

\* C9: delete_conversation on an existing id removes that conversation and
\* every message it owns, leaves the other conversations and messages as
\* they were and returns true; on an unknown id it returns false and
\* changes nothing.
C9_DeleteConversation ==
  [][Called("delete_conversation") =>
       LET c == last'.conv IN
       IF last'.ok
       THEN /\ c \in DOMAIN conversations
            /\ conversations' = Restrict(conversations, DOMAIN conversations \ {c})
            /\ messages' = Restrict(messages,
                 {m \in DOMAIN messages : messages[m].conversation_id # c})
       ELSE /\ c \notin DOMAIN conversations
            /\ UNCHANGED db]_vars

\* a conversation with a message has been deleted, another one with a
\* message is left
C9_Witness ==
  /\ last.op = "delete_conversation" /\ last.ok
  /\ appends["p1"] = 2
  /\ Cardinality(DOMAIN messages) = 1
  /\ \E m \in DOMAIN messages : messages[m].conversation_id \in DOMAIN conversations

\* the spellings of "anonymous" in the model
AnonymousSpellings == {AnonymousLit, AnonymousCap, AnonymousUpper}

\* C10: delete_user_messages with "anonymous" in any letter case deletes
\* exactly the conversations whose session type is anonymous, with their
\* messages, and leaves the conversations of named users and their
\* messages as they were.
C10_DeleteAnonymous ==
  [][(Called("delete_user_messages") /\ last'.uid \in AnonymousSpellings) =>
       LET kept == {c \in DOMAIN conversations :
                      conversations[c].session_type # "anonymous"}
       IN /\ conversations' = Restrict(conversations, kept)
          /\ messages' = Restrict(messages,
               {m \in DOMAIN messages : messages[m].conversation_id \in kept})]_vars

\* an anonymous conversation and its message have been deleted under a
\* spelling with capitals, a named user's conversation and message are left
C10_Witness ==
  /\ last.op = "delete_user_messages"
  /\ last.uid \in {AnonymousCap, AnonymousUpper}
  /\ last.x = 1 /\ last.y = 1
  /\ \E m \in DOMAIN messages :
       /\ messages[m].conversation_id \in DOMAIN conversations
       /\ conversations[messages[m].conversation_id].session_type = "user"

\* C11: after delete_user_messages(u) returns, no DailyStatistics row of
\* u's bucket remains, also when u's conversations had been removed one by
\* one before; for "anonymous" no row with absent user id remains.
C11_UserStatsCleared ==
  [][Called("delete_user_messages") =>
       LET bucket == IF last'.uid \in AnonymousSpellings THEN Null ELSE last'.uid
       IN \A r \in DOMAIN stats' : stats'[r].user_id # bucket]_vars

\* C12: purge_all_data leaves no conversation, message or daily-statistics
\* row, and the three counts it returns are the numbers of rows the tables
\* held just before.
C12_PurgeAll ==
  [][(Called("purge_all_data") /\ last'.ok) =>
       /\ DOMAIN messages' = {}
       /\ DOMAIN conversations' = {}
       /\ DOMAIN stats' = {}
       /\ last'.x = Cardinality(DOMAIN messages)
       /\ last'.y = Cardinality(DOMAIN conversations)
       /\ last'.z = Cardinality(DOMAIN stats)]_vars

\* two conversations, two messages and two statistics rows have been purged
C12_Witness ==
  /\ last.op = "purge_all_data" /\ last.ok
  /\ last.x = 2 /\ last.y = 2 /\ last.z = 2
  /\ DOMAIN messages = {} /\ DOMAIN conversations = {} /\ DOMAIN stats = {}

\* C13: the purge endpoint called without confirm=true answers with an
\* error and leaves the three tables as they were; the tables are purged
\* only when confirm is true.
C13_PurgeNeedsConfirm ==
  [][Called("purge_all_data") =>
       IF last'.confirm
       THEN /\ last'.ok
            /\ DOMAIN messages' = {}
            /\ DOMAIN conversations' = {}
            /\ DOMAIN stats' = {}
       ELSE /\ ~last'.ok
            /\ last'.stage = "HTTP400"
            /\ UNCHANGED db]_vars

\* an unconfirmed purge has been refused while the tables held rows
C13_Witness ==
  /\ last.op = "purge_all_data" /\ last.stage = "HTTP400" /\ ~last.confirm
  /\ DOMAIN messages # {} /\ DOMAIN conversations # {} /\ DOMAIN stats # {}

\* C14: delete_message and delete_conversation leave every DailyStatistics
\* row as it was; what earlier appends recorded is not adjusted.
C14_DeletesKeepStats ==
  [][(Called("delete_message") \/ Called("delete_conversation"))
       => UNCHANGED stats]_vars

\* both messages have been deleted and the bucket still counts two
C14_Witness ==
  /\ last.op = "delete_message" /\ last.ok
  /\ DOMAIN messages = {}
  /\ \E r \in DOMAIN stats : stats[r].total_messages = 2

\* C15: every existing conversation's total_tokens_used equals the sum of
\* tokens_used over the messages it owns, after any sequence of appends
\* and message deletions.
C15_TotalTokensIsSum ==
  \A c \in DOMAIN conversations :
    conversations[c].total_tokens_used
      = SumOver([m \in MessagesOf(c) |-> messages[m].tokens_used], MessagesOf(c))

\* one of two messages with tokens has been deleted
C15_Witness ==
  /\ last.op = "delete_message" /\ last.ok
  /\ last.conv \in DOMAIN conversations
  /\ conversations[last.conv].total_tokens_used = 2
  /\ Cardinality(MessagesOf(last.conv)) = 1

\* C16: a message whose store flag is false is kept out of the messages
\* table: no message row is added for it (and the call raises no error).
C16_UnstoredNotPersisted ==
  \A m \in DOMAIN messages : messages[m].store

\* C17: reading the messages of a conversation answers not-found exactly
\* when no message matched and the conversation does not exist; an
\* existing conversation, anonymous or not, with no (matching) message
\* gets an empty page.
C17_NotFoundOnlyWhenMissing ==
  [][Called("get_conversation_messages") =>
       (last'.stage = "HTTP404"
          <=> (last'.x = 0 /\ last'.conv \notin DOMAIN conversations))]_vars

\* the first of the groups, in the order given, that has a keyword in the
\* lower-cased message names the result; otherwise it is the default
FirstMatch(groups, names, default, message) ==
  LET hits == {i \in 1..Len(groups) : AnyKeyword(groups[i], Lower(message))}
  IN IF hits = {} THEN default
     ELSE names[CHOOSE i \in hits : \A j \in hits : i <= j]

\* C18: the level is decided by the first keyword group with a substring
\* match in the lower-cased text, in the order sensitive, critical, high,
\* mid, else low; a text with a sensitive keyword is sensitive whatever
\* else it contains.
C18_LevelPrecedence ==
  agent.pc = "classified" =>
    /\ agent.msg_level =
         FirstMatch(<<sensitive_keywords, critical_keywords, high_keywords, mid_keywords>>,
                    <<"sensitive", "critical", "high", "mid">>, "low", agent.message)
    /\ AnyKeyword(sensitive_keywords, Lower(agent.message)) => agent.msg_level = "sensitive"

\* a message with a critical keyword before a sensitive one was classified
C18_Witness ==
  /\ agent.pc = "classified"
  /\ agent.message = Join(<<WordBill, WordPassword>>)
  /\ agent.msg_level = "sensitive"

\* C19: the category is decided, independently of the level, by the first
\* matching group in the order billing, technical, packages,
\* entertainment, account, else general; "password" alone gives level
\* sensitive and category general, "password" with "bill" gives level
\* sensitive and category billing.
C19_CategoryPrecedence ==
  agent.pc = "classified" =>
    /\ agent.msg_category =
         FirstMatch(<<billing_words, technical_words, packages_words,
                      entertainment_words, account_words>>,
                    <<"billing", "technical", "packages", "entertainment", "account">>,
                    "general", agent.message)
    /\ agent.message = WordPassword
         => (agent.msg_level = "sensitive" /\ agent.msg_category = "general")
    /\ agent.message \in {Join(<<WordPassword, WordBill>>), Join(<<WordBill, WordPassword>>)}
         => (agent.msg_level = "sensitive" /\ agent.msg_category = "billing")

\* "Password BILL" was classified sensitive and billing
C19_Witness ==
  /\ agent.pc = "classified"
  /\ agent.message = Join(<<WordPassword, WordBill>>)
  /\ agent.msg_level = "sensitive"
  /\ agent.msg_category = "billing"

\* every extraction stage left an empty or whitespace-only reply
ExtractionBlank ==
  \/ ~agent.extracted.truthy
  \/ agent.extracted.kind = "str" /\ Strip(agent.extracted.text) = <<>>

Wrappings ==
  {<<<<>>, <<>>>>, <<FenceJson \o <<NL>>, <<NL>> \o Fence>>, <<Fence \o <<NL>>, <<NL>> \o Fence>>}

\* C21: for a raw output that is a well-formed JSON object with a string
\* reply and a metadata object, bare or wrapped in one fenced code block, the
\* parser returns exactly the text of the reply field and the metadata object
\* as given.  The replies asked about have no surrounding whitespace, no
\* escaped newline and no JSON in them.
C21_ReturnsReplyAndMetadata ==
  agent.pc = "parsed" =>
    \A reply \in PlainReplies, store \in BOOLEAN, w \in Wrappings :
      agent.raw_output = w[1] \o WellFormed(reply, store) \o w[2] =>
        /\ agent.ai_reply = reply
        /\ agent.metadata = DictValue(<<<<StoreKey, OtherValue(store)>>>>)

NoBraces(text) == \A i \in 1..Len(text) : text[i] \notin {"{", "}"}

C23_PageEnvelope ==
  query.pc = "done" =>
    /\ (query.page - 1) * query.limit <= query.skip
    /\ query.skip < query.page * query.limit
    /\ query.total_pages * query.limit >= query.total
    /\ (query.total_pages - 1) * query.limit < query.total
    /\ query.total = 0 => query.total_pages = 0
    /\ (query.total = 45 /\ query.limit = 20 /\ query.skip = 40)
         => (query.page = 3 /\ query.total_pages = 3)

C23_Witness ==
  /\ query.pc = "done"
  /\ query.total = 45 /\ query.limit = 20 /\ query.skip = 40
  /\ query.page = 3 /\ query.total_pages = 3

\* C24: there is at most one DailyStatistics row per date and user id (or
\* absent user id), also after two concurrent add_message calls that both
\* found the row missing.
C24_OneRowPerBucket ==
  \A r1, r2 \in DOMAIN stats :
    (stats[r1].date = stats[r2].date /\ stats[r1].user_id = stats[r2].user_id)
      => r1 = r2

\* the counters of a DailyStatistics row (every column but the average)
CounterFields ==
  {"total_messages", "user_messages", "assistant_messages", "total_tokens",
   "low_level_count", "mid_level_count", "high_level_count",
   "critical_level_count", "sensitive_level_count", "total_api_calls"}

\* C25, as stated: no counter of a (date, user) bucket decreases from one
\* state to the next, whatever store operation is performed; a bucket without
\* a row counts nothing.
C25_BucketCountersNeverDecrease ==
  [][\A u \in UserIds, f \in CounterFields :
       BucketSum(u, f)' >= BucketSum(u, f)]_vars

\* C25, amended: as long as a DailyStatistics row exists none of its
\* counters decreases from one state to the next, and only
\* delete_user_messages and purge_all_data remove rows (after which the
\* bucket starts again from zero).
C25_RowCountersNeverDecrease ==
  [][/\ \A r \in DOMAIN stats \cap DOMAIN stats', f \in CounterFields :
          stats'[r][f] >= stats[r][f]
     /\ (DOMAIN stats \ DOMAIN stats' # {})
          => last'.op \in {"delete_user_messages", "purge_all_data"}]_vars

\* a second message has been counted in a row, then a message and a
\* conversation were deleted and the row still counts both
C25_Witness ==
  /\ last.op = "delete_conversation" /\ last.ok
  /\ DOMAIN messages = {}
  /\ \E r \in DOMAIN stats : stats[r].total_messages = 2 /\ stats[r].total_tokens = 2

\* what the rows of table for today and user u add up to in column f
TableSum(table, u, f) ==
  LET rows == {r \in DOMAIN table : table[r].date = Today /\ table[r].user_id = u}
  IN SumOver([r \in rows |-> table[r][f]], rows)

\* C26: each successful add_message raises the total_messages of the bucket
\* of the conversation's user by exactly 1, raises exactly one of
\* user_messages and assistant_messages by 1 according to the role, adds the
\* message's tokens and API calls, and raises by 1 exactly the level counter
\* named by the message's level; in every state every row has
\* total_messages = user_messages + assistant_messages.
C26_AppendCountsInBucket ==
  /\ [](\A r \in DOMAIN stats :
          stats[r].total_messages = stats[r].user_messages + stats[r].assistant_messages)
  /\ [][(Called("add_message") /\ last'.stage = "done") =>
          LET u == last'.uid
              m == messages[last'.id]
              Raised(f) == TableSum(stats', u, f) - TableSum(stats, u, f)
          IN /\ Raised("total_messages") = 1
             /\ Raised("user_messages") = (IF m.role = "user" THEN 1 ELSE 0)
             /\ Raised("assistant_messages") = (IF m.role = "assistant" THEN 1 ELSE 0)
             /\ m.role \in {"user", "assistant"}
             /\ Raised("total_tokens") = m.tokens_used
             /\ Raised("total_api_calls") = m.api_calls_made
             /\ \A l \in Levels :
                  Raised(level_map(l)) = (IF l = m.message_level THEN 1 ELSE 0)
             /\ m.message_level \in Levels
             /\ \A v \in UserIds \ {u}, f \in CounterFields :
                  TableSum(stats', v, f) = TableSum(stats, v, f)]_vars

\* a user message and an assistant reply have been counted in one row
C26_Witness ==
  /\ last.op = "add_message" /\ last.stage = "done"
  /\ \E r \in DOMAIN stats :
       /\ stats[r].user_id = last.uid
       /\ stats[r].user_messages = 1 /\ stats[r].assistant_messages = 1
       /\ stats[r].sensitive_level_count = 1 /\ stats[r].low_level_count = 1
       /\ stats[r].total_tokens = 2 /\ stats[r].total_api_calls = 1

\* C27: get_or_create_conversation called with an id that exists returns
\* that conversation and changes no stored row, whatever user id and
\* language come with it; called with no id or an unknown id it creates
\* exactly one conversation, of session type user when a (non-empty) user id
\* is given and anonymous otherwise, with both counters at 0.
C27_GetOrCreate ==
  [][Called("get_or_create_conversation") =>
       IF last'.arg \in DOMAIN conversations
       THEN /\ last'.conv = last'.arg
            /\ UNCHANGED db
       ELSE /\ last'.conv \notin DOMAIN conversations
            /\ DOMAIN conversations' = DOMAIN conversations \cup {last'.conv}
            /\ \A c \in DOMAIN conversations : conversations'[c] = conversations[c]
            /\ conversations'[last'.conv].user_id = last'.uid
            /\ conversations'[last'.conv].session_type =
                 (IF last'.uid \notin {Null, <<>>} THEN "user" ELSE "anonymous")
            /\ conversations'[last'.conv].total_messages = 0
            /\ conversations'[last'.conv].total_tokens_used = 0
            /\ UNCHANGED <<messages, stats>>]_vars

\* an existing conversation with messages was asked for with another user
\* id and another language, after a conversation was created for an unknown id
C27_Witness ==
  /\ last.op = "get_or_create_conversation" /\ last.stage = "existing"
  /\ conversations[last.conv].user_id # last.uid
  /\ conversations[last.conv].language = "BN"
  /\ conversations[last.conv].total_messages = 2
  /\ Cardinality(DOMAIN conversations) = 2

\* C29: every message row refers to an existing conversation, however the
\* steps of add_message interleave with delete_conversation,
\* delete_user_messages and purge_all_data.
C29_NoOrphanedMessages ==
  \A m \in DOMAIN messages : messages[m].conversation_id \in DOMAIN conversations

\* C28: the chat history of a request is the 10 most recent messages of the
\* conversation, all of them when there are fewer, oldest first, without
\* the user message of the request
C28_HistoryIsMostRecent ==
  \A p \in Procs :
    local[p].chat.pc = "save_user" =>
      \A rows \in OrderByMessageIndex(MessagesOf(local[p].chat.conv)) :
        LET n == Len(rows)
        IN local[p].chat.history =
             SubSeq(rows, n - Min(n, HistoryLimit) + 1, n)

\* C30: a chat request that has returned saved exactly two messages in its
\* conversation, the user message before process_chat was awaited and the
\* reply after it, the user message with the smaller message_index,
\* whatever the other request did in between
C30_TwoMessagesInOrder ==
  \A p \in Procs :
    local[p].chat.pc = "returned" =>
      LET chat == local[p].chat
      IN /\ Len(chat.saved) = 2
         /\ chat.invoked_after = 1
         /\ chat.saved[1][1] # chat.saved[2][1]
         /\ \A i \in 1..2 :
              /\ chat.saved[i][1] \in DOMAIN messages
              /\ messages[chat.saved[i][1]].conversation_id = chat.conv
              /\ messages[chat.saved[i][1]].message_index = chat.saved[i][2]
         /\ messages[chat.saved[1][1]].role = "user"
         /\ chat.saved[1][2] < chat.saved[2][2]

\* both requests returned for the same conversation after their user
\* messages were given the same message_index
C30_Witness ==
  /\ \A p \in Procs : local[p].chat.pc = "returned"
  /\ local["p1"].chat.conv = local["p2"].chat.conv
  /\ local["p1"].chat.saved[1][2] = local["p2"].chat.saved[1][2]

====
